---- MODULE Spec2Model ----
(***************************************************************************)
(* SportToken / TrackTrade: the funding-campaign ledger of src/main.py     *)
(* (the in-memory variant: tokens_db, investments_db and the handlers      *)
(* create_athlete_token, activate_token, invest_in_athlete,                *)
(* distribute_revenue, update_performance_metrics), and the same ledger    *)
(* kept in Postgres by the router of src/endpoints.py (the table           *)
(* athlete_tokens and the handlers create_athlete, activate_token,         *)
(* invest_in_athlete, here prefixed pg_), and the creation of campaigns by *)
(* the smart-contract router of src/endpoints_soroban.py (prefixed         *)
(* soroban_).  A deployment serves one of the three: the variable variant  *)
(* says which.                                                             *)
(*                                                                         *)
(* Units.  Money (Decimal in the source) is an integer number of cents.    *)
(* The three performance scores (floats in [0,100]) are integers counting  *)
(* half points (0..200).  A valuation (float) is an integer counting       *)
(* 1/400 points, the common denominator of the weights 0.3, 0.25, 0.15     *)
(* applied to half points, to (35 - age)/20 and to the level multipliers.  *)
(* A price per token is an exact fraction [num, den] of cents.  The clock  *)
(* is in seconds.  The requests enumerated below are ones on which the     *)
(* source's binary floating point (float(), str(), Decimal(str())) yields  *)
(* exactly these values: whole amounts and valuations of 25.0 and 50.0.    *)
(***************************************************************************)
EXTENDS Integers, Sequences, FiniteSets, TLC

VARIABLES
    now,             \* the wall clock, datetime.now(), in seconds
    tokens_db,       \* token_id -> token_data                (main.py:107)
    investments_db,  \* token_id -> list of investment_data   (main.py:108)
    last,            \* the request last served and its response
    variant,         \* which application serves: "memory", "postgres" or
                     \* "soroban"
    athlete_tokens,  \* the rows of table athlete_tokens, in order of their id
    scored,          \* an athlete, a performance record and the scores that
                     \* calls of calculate_athlete_valuation gave them
    soroban,         \* cache_manager.memory_cache and rate_limiter.requests
                     \* of the router of endpoints_soroban.py
    postgres,        \* the rows of table investments, and the invest requests
                     \* the router of endpoints.py has received
    rate_limiter,    \* a RateLimiter of endpoints_soroban.py, taken alone
    contract_call,   \* a call of _execute_contract_function
    cache,           \* a CacheManager and the external cache behind it
    batch            \* a call of batch_create_tokens

\* the objects taken alone, which no request of the three applications uses
components == <<rate_limiter, contract_call, cache, batch>>

vars ==
    <<now, tokens_db, investments_db, last, variant, athlete_tokens, scored,
      soroban, postgres, components>>

----------------------------------------------------------------------------
(* Bounds of the model *)

\* campaigns that may exist at once
MaxTokens == 1
\* investment records that may exist at once, over all campaigns
MaxInvestments == 2

(* Program constants *)

\* timedelta(days = n) in seconds
SecondsPerDay == 86400
\* the valuation cap min(100.0, total_score), in 1/400 points
ValuationCap == 40000
\* the divisor of athlete_valuation / 50.0 in 1/400 points: 50 * 400
PriceBasis == 20000
\* minimum_investment = None (Optional[Decimal])
NoneValue == -1

DRAFT == "draft"
ACTIVE == "active"
PAUSED == "paused"
COMPLETED == "completed"
TokenStatus == {DRAFT, ACTIVE, PAUSED, COMPLETED}

AMATEUR == "amateur"
SEMI_PROFESSIONAL == "semi_professional"
PROFESSIONAL == "professional"
ELITE == "elite"
AthleteLevel == {AMATEUR, SEMI_PROFESSIONAL, PROFESSIONAL, ELITE}

Days(n) == n * SecondsPerDay

Max_Second(a, b) == b
Max(a, b) == IF a >= b THEN a ELSE b
Min(a, b) == IF a <= b THEN a ELSE b

RECURSIVE GCD(_, _)
GCD(a, b) == IF b = 0 THEN a ELSE GCD(b, a % b)

\* An exact fraction in lowest terms: the value of a Decimal product.
Fraction(n, d) == [num |-> n \div GCD(n, d), den |-> d \div GCD(n, d)]

----------------------------------------------------------------------------
(* The environment: the clock's instants and the requests clients send *)

\* a campaign of 30 days created at 0 ends at Days(30): the last instant at
\* which it accepts investments, and the first at which it has expired
Instants == {0, Days(30), Days(30) + 1}

\* investor_stellar_address of an investment request: the handlers store the
\* address and never compare it, so one address (which may invest again)
\* stands for all
Investors == {"GX"}

\* amount_xlm of an investment request, in cents: 5, 10, 500 and 1000 XLM
Amounts == {500, 1000, 50000, 100000}

\* revenue_amount of a distribution request, in cents: 100 and 1000 XLM
RevenueAmounts == {10000, 100000}

\* PerformanceMetrics bodies, scores in half points: the float valuation of
\* an amateur aged 25 is 50.0 with the first and 25.0 with the second
MetricsHigh ==
    [recent_performance_score |-> 149, potential_score |-> 100,
     media_exposure_score |-> 200]
MetricsLow ==
    [recent_performance_score |-> 24, potential_score |-> 50,
     media_exposure_score |-> 200]
MetricsSet == {MetricsHigh, MetricsLow}

Athlete == [name |-> "ANA", age |-> 25, level |-> AMATEUR]

\* CreateAthleteTokenRequest bodies
RequestUnit ==
    [athlete_data |-> Athlete, performance_metrics |-> MetricsHigh,
     tokenomics |-> [total_supply |-> 1000, price_per_token |-> 100,
                     minimum_investment |-> 1000, token_symbol |-> "AAA"],
     funding_goal |-> 100000, campaign_duration_days |-> 30]
RequestDear ==
    [athlete_data |-> Athlete, performance_metrics |-> MetricsHigh,
     tokenomics |-> [total_supply |-> 1000, price_per_token |-> 2000,
                     minimum_investment |-> 1000, token_symbol |-> "BBB"],
     funding_goal |-> 100000, campaign_duration_days |-> 30]
RequestCheap ==
    [athlete_data |-> Athlete, performance_metrics |-> MetricsLow,
     tokenomics |-> [total_supply |-> 1000, price_per_token |-> 100,
                     minimum_investment |-> 200000, token_symbol |-> "AAA"],
     funding_goal |-> 100000, campaign_duration_days |-> 30]
RequestNoMinimum ==
    [athlete_data |-> Athlete, performance_metrics |-> MetricsHigh,
     tokenomics |-> [total_supply |-> 1000, price_per_token |-> 100,
                     minimum_investment |-> NoneValue, token_symbol |-> "BBB"],
     funding_goal |-> 100000, campaign_duration_days |-> 30]
CandidateRequests == {RequestUnit, RequestDear, RequestCheap, RequestNoMinimum}

\* a token_id no campaign ever has
MissingTokenId == <<"ZZZ", 0>>

----------------------------------------------------------------------------
(* Request validation (pydantic Field constraints) *)

ValidAthleteData(a) ==
    /\ a.age >= 14 /\ a.age <= 50
    /\ a.level \in AthleteLevel

ValidPerformanceMetrics(m) ==
    /\ m.recent_performance_score >= 0 /\ m.recent_performance_score <= 200
    /\ m.potential_score >= 0 /\ m.potential_score <= 200
    /\ m.media_exposure_score >= 0 /\ m.media_exposure_score <= 200

ValidTokenomicsConfig(t) ==
    /\ t.total_supply >= 1000 /\ t.total_supply <= 10000000
    /\ t.price_per_token >= 1 /\ t.price_per_token <= 100000
    /\ (t.minimum_investment = NoneValue \/ t.minimum_investment >= 100)

ValidCreateRequest(r) ==
    /\ ValidAthleteData(r.athlete_data)
    /\ ValidPerformanceMetrics(r.performance_metrics)
    /\ ValidTokenomicsConfig(r.tokenomics)
    /\ r.funding_goal >= 100000
    /\ r.campaign_duration_days >= 30 /\ r.campaign_duration_days <= 365

ValidInvestmentAmount(amount_xlm) == amount_xlm >= 100

----------------------------------------------------------------------------
(* Valuation and price *)

\* the level multipliers 0.5, 0.7, 1.0, 1.3, in tenths
level_multipliers(level) ==
    CASE level = AMATEUR -> 5
      [] level = SEMI_PROFESSIONAL -> 7
      [] level = PROFESSIONAL -> 10
      [] level = ELITE -> 13

\* In 1/400 points: a half point weighs 0.3 * 200 = 60, 0.25 * 200 = 50 and
\* 0.15 * 200 = 30; max(0.5, (35 - age) / 20) is taken in twentieths, each
\* weighing 0.15 * 20 = 3; a tenth of level multiplier weighs 0.15 * 40 = 6.
calculate_athlete_valuation_PerCampaign(athlete, performance) ==
    Min(ValuationCap,
        performance.recent_performance_score * 60
        + performance.potential_score * 50
        + performance.media_exposure_score * 30
        + Max(10, 35 - athlete.age) * 3
        + level_multipliers(athlete.level) * 6
        + Cardinality(DOMAIN tokens_db))
calculate_athlete_valuation(athlete, performance) ==
    LET base_score == performance.recent_performance_score * 60
        potential_score == performance.potential_score * 50
        media_score == performance.media_exposure_score * 30
        age_factor == Max(10, 35 - athlete.age) * 3
        level_factor == level_multipliers(athlete.level) * 6
        total_score == base_score + potential_score + media_score
                       + age_factor + level_factor
    IN  Min(ValuationCap, total_score)

\* price_per_token * Decimal(str(athlete_valuation / 50.0))
AdjustedPrice(price_per_token, athlete_valuation) ==
    Fraction(price_per_token * athlete_valuation, PriceBasis)

----------------------------------------------------------------------------
(* Responses *)

\* What a handler answers: the HTTP status code, the kind of the answer (the
\* HTTPException raised, or "ok"), and the numbers of the response body.
Response(op, token_id, code, detail, tokens, remaining, valuation) ==
    [op |-> op, token_id |-> token_id, code |-> code, detail |-> detail,
     tokens |-> tokens, remaining |-> remaining, valuation |-> valuation]

NotFound == "Token nao encontrado"
InvalidState == "Token nao esta ativo para investimentos"
AlreadyActivated == "Token ja foi ativado ou finalizado"
Expired == "Campanha de financiamento ja encerrou"
BelowMinimum == "Investimento minimo"
AmountTooSmall == "Valor muito baixo para comprar pelo menos 1 token"
InsufficientSupply == "tokens disponiveis"
NoInvestors == "Nao ha investidores neste token"
InternalError == "Internal Server Error"
Ok == "ok"

NoToken == <<"", 0>>

\* an athlete and a performance record that no call has scored yet
Unscored(athlete, performance) ==
    [athlete |-> athlete, performance |-> performance, scores |-> <<>>]

MEMORY == "memory"
POSTGRES == "postgres"
SOROBAN == "soroban"
Variants == {MEMORY, POSTGRES, SOROBAN}

\* an object that is not in use
Idle == [pc |-> "idle"]

ComponentsIdle ==
    /\ rate_limiter = Idle
    /\ contract_call = Idle
    /\ cache = Idle
    /\ batch = Idle

Init ==
    /\ ComponentsIdle
    /\ now = 0
    /\ tokens_db = <<>>
    /\ investments_db = <<>>
    /\ last = Response("none", NoToken, 0, "", 0, 0, 0)
    /\ variant \in Variants
    /\ athlete_tokens = <<>>
    /\ scored = Unscored(Athlete, MetricsHigh)
    /\ soroban = [memory_cache |-> <<>>, requests |-> <<>>,
                  handlers |-> <<>>, create_campaign_calls |-> <<>>]
    /\ postgres = [investments |-> <<>>, requests |-> <<>>]

\* dict assignment d[k] = v
Put_KeepExisting(d, k, v) ==
    [x \in DOMAIN d \cup {k} |-> IF x \in DOMAIN d THEN d[x] ELSE v]
Put(d, k, v) == [x \in DOMAIN d \cup {k} |-> IF x = k THEN v ELSE d[x]]

----------------------------------------------------------------------------
(* The clock *)

Tick ==
    /\ \E t \in Instants : t > now /\ now' = t
    /\ UNCHANGED <<tokens_db, investments_db, last, variant, athlete_tokens,
                   scored, soroban, postgres, components>>

----------------------------------------------------------------------------
(* POST /athletes/create-token *)

TokenId(token_symbol, timestamp) == <<token_symbol, timestamp>>

create_athlete_token(request) ==
    LET athlete_valuation ==
            calculate_athlete_valuation(request.athlete_data,
                                        request.performance_metrics)
        token_id == TokenId(request.tokenomics.token_symbol, now)
        adjusted_price ==
            AdjustedPrice(request.tokenomics.price_per_token, athlete_valuation)
        token_data ==
            [id |-> token_id,
             athlete_data |-> request.athlete_data,
             performance_metrics |-> request.performance_metrics,
             tokenomics |-> request.tokenomics,
             athlete_valuation |-> athlete_valuation,
             adjusted_price_per_token |-> adjusted_price,
             funding_goal |-> request.funding_goal,
             campaign_duration_days |-> request.campaign_duration_days,
             status |-> DRAFT,
             created_at |-> now,
             campaign_end_date |-> now + Days(request.campaign_duration_days),
             total_raised |-> 0,
             investors_count |-> 0,
             tokens_sold |-> 0,
             stellar_asset |-> ""]
    IN  /\ tokens_db' = Put(tokens_db, token_id, token_data)
        /\ investments_db' = Put(investments_db, token_id, <<>>)
        /\ last' = Response("create", token_id, 200, Ok, 0, 0, athlete_valuation)
        /\ UNCHANGED now

Create ==
    \E request \in CandidateRequests :
        /\ ValidCreateRequest(request)
        /\ Cardinality(DOMAIN tokens_db
                       \cup {TokenId(request.tokenomics.token_symbol, now)})
               <= MaxTokens
        /\ create_athlete_token(request)

----------------------------------------------------------------------------
(* POST /tokens/{token_id}/activate *)

\* token_data["status"] != TokenStatus.DRAFT
NotDraft_ActiveOnly(status) == status = ACTIVE
NotDraft(status) == status # DRAFT

activate_token(token_id) ==
    IF token_id \notin DOMAIN tokens_db
    THEN /\ last' = Response("activate", token_id, 404, NotFound, 0, 0, 0)
         /\ UNCHANGED <<now, tokens_db, investments_db>>
    ELSE LET token_data == tokens_db[token_id] IN
         IF NotDraft(token_data.status)
         THEN /\ last' = Response("activate", token_id, 400, AlreadyActivated,
                                  0, 0, 0)
              /\ UNCHANGED <<now, tokens_db, investments_db>>
         ELSE /\ tokens_db' =
                    [tokens_db EXCEPT
                        ![token_id].status = ACTIVE,
                        ![token_id].stellar_asset =
                            token_data.tokenomics.token_symbol]
              /\ last' = Response("activate", token_id, 200, Ok, 0, 0, 0)
              /\ UNCHANGED <<now, investments_db>>

----------------------------------------------------------------------------
(* POST /investments/invest *)

\* token_data["status"] != TokenStatus.ACTIVE
NotActive_CompletedOnly(status) == status = COMPLETED
NotActive_DraftOnly(status) == status = DRAFT
NotActive(status) == status # ACTIVE

\* datetime.now() > campaign_end
CampaignEnded_Reversed(current, campaign_end) == campaign_end > current
CampaignEnded_OneSecondLate(current, campaign_end) == current > campaign_end + 1
CampaignEnded(current, campaign_end) == current > campaign_end

\* investment.amount_xlm < minimum_investment
UnderMinimum_Default(amount_xlm, minimum_investment) == amount_xlm < 1000
UnderMinimum(amount_xlm, minimum_investment) == amount_xlm < minimum_investment

\* int(investment.amount_xlm / price_per_token)
TokensToPurchase_RoundedUp(amount_xlm, price_per_token) ==
    (amount_xlm * price_per_token.den + price_per_token.num - 1)
        \div price_per_token.num
TokensToPurchase(amount_xlm, price_per_token) ==
    (amount_xlm * price_per_token.den) \div price_per_token.num

\* token_data["tokenomics"]["total_supply"] - token_data["tokens_sold"]
TokensAvailable_TotalSupply(token_data) == token_data.tokenomics.total_supply
TokensAvailable(token_data) ==
    token_data.tokenomics.total_supply - token_data.tokens_sold

\* tokens_to_purchase > tokens_available
ExceedsSupply_SoldOut(tokens_to_purchase, tokens_available) ==
    tokens_available = 0
ExceedsSupply(tokens_to_purchase, tokens_available) ==
    tokens_to_purchase > tokens_available

\* tokens_db[...]["total_raised"] >= token_data["funding_goal"]
GoalReached_Strict(total_raised, funding_goal) == total_raised > funding_goal
GoalReached_Exactly(total_raised, funding_goal) == total_raised = funding_goal
GoalReached(total_raised, funding_goal) == total_raised >= funding_goal

InvestmentData_NoTokens(investor_address, amount_xlm, tokens_purchased, timestamp) ==
    [investor_address |-> investor_address,
     amount_xlm |-> amount_xlm,
     tokens_purchased |-> 0,
     timestamp |-> timestamp,
     transaction_id |-> <<"inv", timestamp>>]
InvestmentData(investor_address, amount_xlm, tokens_purchased, timestamp) ==
    [investor_address |-> investor_address,
     amount_xlm |-> amount_xlm,
     tokens_purchased |-> tokens_purchased,
     timestamp |-> timestamp,
     transaction_id |-> <<"inv", timestamp>>]

\* tokens_db[...]["total_raised"] += float(investment.amount_xlm)
RaisedAfter_Assigned(total_raised, amount_xlm) == amount_xlm
RaisedAfter(total_raised, amount_xlm) == total_raised + amount_xlm

\* tokens_db[...]["tokens_sold"] += tokens_to_purchase
SoldAfter_Assigned(tokens_sold, tokens_to_purchase) == tokens_to_purchase
SoldAfter(tokens_sold, tokens_to_purchase) == tokens_sold + tokens_to_purchase

\* tokens_db[...]["investors_count"] += 1
CountAfter_DistinctAddresses(investors_count, investments, investment_data) ==
    IF \E k \in 1..Len(investments) :
           investments[k].investor_address = investment_data.investor_address
    THEN investors_count ELSE investors_count + 1
CountAfter(investors_count, investments, investment_data) == investors_count + 1

RecordInvestment_Everywhere(token_id, investment_data) ==
    /\ tokens_db' =
          [tokens_db EXCEPT
              ![token_id].total_raised = @ + investment_data.amount_xlm,
              ![token_id].tokens_sold = @ + investment_data.tokens_purchased,
              ![token_id].investors_count = @ + 1]
    /\ investments_db' =
          [t \in DOMAIN investments_db |->
              Append(investments_db[t], investment_data)]

\* the three counter updates, the append and the completion test
RecordInvestment(token_id, investment_data) ==
    LET token_data == tokens_db[token_id]
        total_raised ==
            RaisedAfter(token_data.total_raised, investment_data.amount_xlm)
    IN  /\ tokens_db' =
              [tokens_db EXCEPT
                  ![token_id].total_raised = total_raised,
                  ![token_id].tokens_sold =
                      SoldAfter(token_data.tokens_sold,
                                investment_data.tokens_purchased),
                  ![token_id].investors_count =
                      CountAfter(token_data.investors_count,
                                 investments_db[token_id], investment_data),
                  ![token_id].status =
                      IF GoalReached(total_raised, token_data.funding_goal)
                      THEN COMPLETED ELSE token_data.status]
        /\ investments_db' =
              [investments_db EXCEPT
                  ![token_id] = Append(investments_db[token_id], investment_data)]

InvestFails(token_id, code, detail, remaining) ==
    /\ last' = Response("invest", token_id, code, detail, 0, remaining, 0)
    /\ UNCHANGED <<now, tokens_db, investments_db>>

invest_in_athlete(token_id, investor_stellar_address, amount_xlm) ==
    IF token_id \notin DOMAIN tokens_db
    THEN InvestFails(token_id, 404, NotFound, 0)
    ELSE LET token_data == tokens_db[token_id]
             minimum_investment == token_data.tokenomics.minimum_investment
             tokens_to_purchase ==
                 TokensToPurchase(amount_xlm, token_data.adjusted_price_per_token)
             tokens_available == TokensAvailable(token_data)
         IN
         IF NotActive(token_data.status)
         THEN InvestFails(token_id, 400, InvalidState, 0)
         ELSE IF CampaignEnded(now, token_data.campaign_end_date)
         THEN InvestFails(token_id, 400, Expired, 0)
         ELSE IF minimum_investment = NoneValue
         \* Decimal(str(None)) raises decimal.InvalidOperation
         THEN InvestFails(token_id, 500, InternalError, 0)
         ELSE IF UnderMinimum(amount_xlm, minimum_investment)
         THEN InvestFails(token_id, 400, BelowMinimum, 0)
         ELSE IF tokens_to_purchase = 0
         THEN InvestFails(token_id, 400, AmountTooSmall, 0)
         ELSE IF ExceedsSupply(tokens_to_purchase, tokens_available)
         THEN InvestFails(token_id, 400, InsufficientSupply, tokens_available)
         ELSE /\ RecordInvestment(token_id,
                     InvestmentData(investor_stellar_address, amount_xlm,
                                    tokens_to_purchase, now))
              /\ last' = Response("invest", token_id, 200, Ok,
                                  tokens_to_purchase,
                                  tokens_available - tokens_to_purchase, 0)
              /\ UNCHANGED now

----------------------------------------------------------------------------
(* Decimal arithmetic, as distribute_revenue uses it *)

\* decimal.getcontext().prec, the significant digits a result keeps; results
\* are rounded ROUND_HALF_EVEN
Precision == 28

\* A Decimal is [coef, exp]: the decimal digits of its coefficient, most
\* significant first, and its exponent; its value is coef * 10^exp.  It is
\* kept without leading and trailing zeros; zero is [<<>>, 0].
RECURSIVE Digits(_)
Digits(n) == IF n = 0 THEN <<>> ELSE Append(Digits(n \div 10), n % 10)

Front(s) == SubSeq(s, 1, Len(s) - 1)

RECURSIVE Normalised(_)
Normalised(d) ==
    IF d.coef = <<>> THEN [coef |-> <<>>, exp |-> 0]
    ELSE IF d.coef[Len(d.coef)] = 0
    THEN Normalised([coef |-> Front(d.coef), exp |-> d.exp + 1])
    ELSE d

\* the coefficient plus one
RECURSIVE Increment(_)
Increment(coef) ==
    IF coef = <<>> THEN <<1>>
    ELSE IF coef[Len(coef)] < 9 THEN [coef EXCEPT ![Len(coef)] = @ + 1]
    ELSE Append(Increment(Front(coef)), 0)

AllZero(digits) == \A i \in DOMAIN digits : digits[i] = 0

\* the exact result d rounded to Precision digits, half to even
Rounded(d) ==
    IF Len(d.coef) <= Precision THEN d
    ELSE LET kept == SubSeq(d.coef, 1, Precision)
             dropped == SubSeq(d.coef, Precision + 1, Len(d.coef))
             up == \/ dropped[1] > 5
                   \/ dropped[1] = 5 /\ ~AllZero(Tail(dropped))
                   \/ dropped[1] = 5 /\ kept[Precision] % 2 = 1
         IN  [coef |-> IF up THEN Increment(kept) ELSE kept,
              exp |-> d.exp + Len(dropped)]

\* Long division of the remainder rem by n, appending digits to coef until
\* the division ends or coef has one digit more than Precision; what is left
\* of the quotient then is all that rounding needs to know: whether it is 0.
RECURSIVE LongDivision(_, _, _, _)
LongDivision(coef, exp, rem, n) ==
    IF rem = 0 THEN [coef |-> coef, exp |-> exp]
    ELSE IF Len(coef) > Precision
    THEN [coef |-> Append(coef, 1), exp |-> exp - 1]
    ELSE LET digit == (rem * 10) \div n
         IN  LongDivision(IF coef = <<>> /\ digit = 0 THEN <<>>
                          ELSE Append(coef, digit),
                          exp - 1, (rem * 10) % n, n)

\* the exact digits of amount / n, as far as rounding needs them
Quotient(amount, n) == LongDivision(Digits(amount \div n), -2, amount % n, n)

\* amount / Decimal(str(n)), for an amount in cents and an int n > 0
DecimalDivide(amount, n) == Normalised(Rounded(Quotient(amount, n)))

\* the digits of coef * n + carry
RECURSIVE Product(_, _, _)
Product(coef, n, carry) ==
    IF coef = <<>> THEN Digits(carry)
    ELSE LET p == coef[Len(coef)] * n + carry
         IN  Append(Product(Front(coef), n, p \div 10), p % 10)

\* d * Decimal(str(n)), for an int n > 0
DecimalTimes_Once(d, n) == d
DecimalTimes(d, n) ==
    Normalised(Rounded([coef |-> Product(d.coef, n, 0), exp |-> d.exp]))

\* the digits of a + b + carry
RECURSIVE SumDigits(_, _, _)
SumDigits(a, b, carry) ==
    IF a = <<>> /\ b = <<>> THEN Digits(carry)
    ELSE LET x == IF a = <<>> THEN 0 ELSE a[Len(a)]
             y == IF b = <<>> THEN 0 ELSE b[Len(b)]
             s == x + y + carry
         IN  Append(SumDigits(IF a = <<>> THEN a ELSE Front(a),
                              IF b = <<>> THEN b ELSE Front(b), s \div 10),
                    s % 10)

\* the coefficient of d at the smaller exponent exp
Aligned(d, exp) ==
    IF d.coef = <<>> THEN <<>>
    ELSE d.coef \o [i \in 1..(d.exp - exp) |-> 0]

\* x + y
DecimalPlus(x, y) ==
    LET exp == Min(x.exp, y.exp)
    IN  Normalised(Rounded([coef |-> SumDigits(Aligned(x, exp), Aligned(y, exp), 0),
                            exp |-> exp]))

DecimalZero == [coef |-> <<>>, exp |-> 0]

----------------------------------------------------------------------------
(* POST /revenue/distribute *)

\* not investments_db.get(token_id)
HasNoInvestments_Never(investments) == FALSE
HasNoInvestments(investments) == investments = <<>>

\* The entries of distributions, in the order of the investment list.  The
\* response carries float(investor_revenue), the double nearest to this
\* Decimal: the same number whenever the Decimal is a whole number of XLM.
Distributions_Reversed(investments, revenue_per_token) ==
    [i \in DOMAIN investments |->
        LET investment == investments[Len(investments) + 1 - i]
        IN  [investor_address |-> investment.investor_address,
             tokens_owned |-> investment.tokens_purchased,
             revenue_share |->
                 DecimalTimes(revenue_per_token, investment.tokens_purchased)]]
Distributions(investments, revenue_per_token) ==
    [i \in DOMAIN investments |->
        [investor_address |-> investments[i].investor_address,
         tokens_owned |-> investments[i].tokens_purchased,
         revenue_share |->
             DecimalTimes(revenue_per_token, investments[i].tokens_purchased)]]

\* total_distributed after the first n entries
RECURSIVE TotalDistributed(_, _)
TotalDistributed(distributions, n) ==
    IF n = 0 THEN DecimalZero
    ELSE DecimalPlus(TotalDistributed(distributions, n - 1),
                     distributions[n].revenue_share)

DistributionResponse(token_id, revenue_amount, total_tokens_sold, revenue_per_token, distributions) ==
    [op |-> "distribute", token_id |-> token_id, code |-> 200, detail |-> Ok,
     tokens |-> total_tokens_sold, remaining |-> Len(distributions),
     valuation |-> 0,
     total_revenue |-> revenue_amount,
     revenue_per_token |-> revenue_per_token,
     total_distributed |-> TotalDistributed(distributions, Len(distributions)),
     distributions |-> distributions]

distribute_revenue_Crediting(token_id, revenue_amount) ==
    /\ token_id \in DOMAIN tokens_db
    /\ tokens_db' = [tokens_db EXCEPT ![token_id].total_raised = @ + revenue_amount]
    /\ last' = Response("distribute", token_id, 200, Ok, 0, 0, 0)
    /\ UNCHANGED <<now, investments_db>>
distribute_revenue(token_id, revenue_amount) ==
    /\ IF token_id \notin DOMAIN tokens_db
       THEN last' = Response("distribute", token_id, 404, NotFound, 0, 0, 0)
       ELSE IF HasNoInvestments(investments_db[token_id])
       THEN last' = Response("distribute", token_id, 400, NoInvestors, 0, 0, 0)
       ELSE LET total_tokens_sold == tokens_db[token_id].tokens_sold IN
            IF total_tokens_sold = 0
            \* dividing by Decimal("0") raises decimal.DivisionByZero
            THEN last' = Response("distribute", token_id, 500, InternalError,
                                  0, 0, 0)
            ELSE LET revenue_per_token ==
                         DecimalDivide(revenue_amount, total_tokens_sold)
                 IN  last' = DistributionResponse(
                                 token_id, revenue_amount, total_tokens_sold,
                                 revenue_per_token,
                                 Distributions(investments_db[token_id],
                                               revenue_per_token))
    /\ UNCHANGED <<now, tokens_db, investments_db>>

----------------------------------------------------------------------------
(* GET /athletes/{token_id}/performance *)

\* the response of an update: new_valuation and updated_metrics
PerformanceResponse(token_id, new_valuation, metrics) ==
    [op |-> "performance", token_id |-> token_id, code |-> 200, detail |-> Ok,
     tokens |-> 0, remaining |-> 0, valuation |-> new_valuation,
     updated_metrics |-> metrics]

update_performance_metrics_Repricing(token_id, metrics) ==
    /\ token_id \in DOMAIN tokens_db
    /\ LET new_valuation ==
               calculate_athlete_valuation(tokens_db[token_id].athlete_data,
                                           metrics)
       IN  /\ tokens_db' =
                 [tokens_db EXCEPT
                     ![token_id].performance_metrics = metrics,
                     ![token_id].athlete_valuation = new_valuation,
                     ![token_id].adjusted_price_per_token =
                         AdjustedPrice(
                             tokens_db[token_id].tokenomics.price_per_token,
                             new_valuation)]
           /\ last' = PerformanceResponse(token_id, new_valuation, metrics)
    /\ UNCHANGED <<now, investments_db>>

update_performance_metrics(token_id, metrics) ==
    IF token_id \notin DOMAIN tokens_db
    THEN /\ last' = Response("performance", token_id, 404, NotFound, 0, 0, 0)
         /\ UNCHANGED <<now, tokens_db, investments_db>>
    ELSE LET new_valuation ==
                 calculate_athlete_valuation(tokens_db[token_id].athlete_data,
                                             metrics)
         IN  /\ tokens_db' =
                   [tokens_db EXCEPT
                       ![token_id].performance_metrics = metrics,
                       ![token_id].athlete_valuation = new_valuation]
             /\ last' = PerformanceResponse(token_id, new_valuation, metrics)
             /\ UNCHANGED <<now, investments_db>>

----------------------------------------------------------------------------
(* The Postgres variant (src/endpoints.py) *)

\* amount_xlm of an investment request, in cents: 500, 1000 and 1500 XLM
PgAmounts == {50000, 100000, 150000}

PgNotDraft == "Token ja foi ativado ou esta em outro estado"
PgExpired == "Campanha expirada"
PgExceedsGoal == "Valor de investimento excede o necessario"
PgCreateError == "Erro ao criar atleta"
PgInvestError == "Erro ao processar investimento"

\* the id of row n of athlete_tokens, as a response names it
RowId(n) == <<"athlete_tokens", n>>

\* the columns the INSERT of create_athlete does not name
AthleteTokenDefaults == [total_raised |-> 0, tokens_sold |-> 0, investors_count |-> 0]

\* POST /athletes/create
pg_create_athlete(request) ==
    LET athlete_valuation ==
            calculate_athlete_valuation(request.athlete_data,
                                        request.performance_metrics)
        adjusted_price ==
            AdjustedPrice(request.tokenomics.price_per_token, athlete_valuation)
        token_id == Len(athlete_tokens) + 1
        row ==
            [token_symbol |-> request.tokenomics.token_symbol,
             total_supply |-> request.tokenomics.total_supply,
             price_per_token |-> adjusted_price,
             minimum_investment |-> request.tokenomics.minimum_investment,
             funding_goal |-> request.funding_goal,
             campaign_duration_days |-> request.campaign_duration_days,
             status |-> DRAFT,
             campaign_end_date |-> now + Days(request.campaign_duration_days),
             athlete_valuation |-> athlete_valuation,
             adjusted_price_per_token |-> adjusted_price,
             total_raised |-> AthleteTokenDefaults.total_raised,
             tokens_sold |-> AthleteTokenDefaults.tokens_sold,
             investors_count |-> AthleteTokenDefaults.investors_count]
    IN  IF request.tokenomics.minimum_investment = NoneValue
        \* float(None) raises TypeError, caught by the handler's except (the
        \* row of table athletes, inserted before, is not part of the ledger)
        THEN /\ last' = Response("create", NoToken, 500, PgCreateError, 0, 0, 0)
             /\ UNCHANGED <<now, athlete_tokens>>
        ELSE /\ athlete_tokens' = Append(athlete_tokens, row)
             /\ last' = Response("create", RowId(token_id), 200, Ok, 0, 0,
                                 athlete_valuation)
             /\ UNCHANGED now

\* datetime.now() > token["campaign_end_date"]
PgCampaignEnded_Never(current, campaign_end) == FALSE
PgCampaignEnded(current, campaign_end) == current > campaign_end

\* POST /tokens/{token_id}/activate
pg_activate_token(token_id) ==
    IF token_id \notin DOMAIN athlete_tokens
    THEN /\ last' = Response("activate", RowId(token_id), 404, NotFound, 0, 0, 0)
         /\ UNCHANGED <<now, athlete_tokens>>
    ELSE LET token == athlete_tokens[token_id] IN
         IF token.status # DRAFT
         THEN /\ last' = Response("activate", RowId(token_id), 400, PgNotDraft,
                                  0, 0, 0)
              /\ UNCHANGED <<now, athlete_tokens>>
         ELSE IF PgCampaignEnded(now, token.campaign_end_date)
         THEN /\ last' = Response("activate", RowId(token_id), 400, PgExpired,
                                  0, 0, 0)
              /\ UNCHANGED <<now, athlete_tokens>>
         ELSE /\ athlete_tokens' =
                    [athlete_tokens EXCEPT ![token_id].status = ACTIVE]
              /\ last' = Response("activate", RowId(token_id), 200, Ok, 0, 0, 0)
              /\ UNCHANGED now

\* float(token["funding_goal"]) - float(token["total_raised"])
RemainingFunding(token) == token.funding_goal - token.total_raised

PgInvestFails(token_id, code, detail) ==
    /\ last' = Response("invest", RowId(token_id), code, detail, 0, 0, 0)
    /\ UNCHANGED <<now, athlete_tokens>>

\* POST /investments/invest.  Past its checks the handler builds the
\* parameters of its INSERT from investment.investor_public_key, a field
\* InvestmentRequest does not have: the AttributeError is caught by the
\* handler's except and answered 500 before any statement is executed.
pg_invest_in_athlete(token_id, investor_stellar_address, amount_xlm) ==
    IF token_id \notin DOMAIN athlete_tokens
    THEN PgInvestFails(token_id, 404, NotFound)
    ELSE LET token == athlete_tokens[token_id] IN
         IF token.status # ACTIVE
         THEN PgInvestFails(token_id, 400, InvalidState)
         ELSE IF PgCampaignEnded(now, token.campaign_end_date)
         THEN PgInvestFails(token_id, 400, PgExpired)
         ELSE IF amount_xlm > RemainingFunding(token)
         THEN PgInvestFails(token_id, 400, PgExceedsGoal)
         ELSE PgInvestFails(token_id, 500, PgInvestError)

----------------------------------------------------------------------------
(* The Postgres variant: invest requests that overlap *)

(* Every execute_query and execute_single_query opens a connection of its   *)
(* own and commits (database_config.py:58-99): a request that is served     *)
(* while others are runs statement by statement, and each statement may     *)
(* fail.  postgres.requests lists the invest requests received, each with   *)
(* the place pc it has reached, the row it read, the statements it has      *)
(* committed and, once answered, its status code; postgres.investments is   *)
(* table investments.                                                       *)

\* invest requests that may be received
MaxPgInvests == 2

\* the fields of InvestmentRequest
InvestmentRequestFields == {"token_id", "amount_xlm", "investor_stellar_address"}

\* investment.<field> evaluates; otherwise it raises AttributeError
HasField_Any(field) == TRUE
HasField_OrPublicKey(field) ==
    field \in InvestmentRequestFields \cup {"investor_public_key"}
HasField(field) == field \in InvestmentRequestFields

\* execute_single_query returns None
NoRow == [status |-> "none"]

PgRequests == DOMAIN postgres.requests

\* the requests on campaign token_id that have read it and have not yet
\* committed their UPDATE of its totals
PgReaders(token_id) ==
    {j \in PgRequests : /\ postgres.requests[j].token_id = token_id
                        /\ postgres.requests[j].pc \in {"check", "update"}}

\* the request arrives
pg_invest_received(token_id, investor_stellar_address, amount_xlm) ==
    /\ postgres' =
           [postgres EXCEPT
               !.requests =
                   Append(@, [token_id |-> token_id,
                              investor_stellar_address |-> investor_stellar_address,
                              amount_xlm |-> amount_xlm,
                              pc |-> "select",
                              token |-> NoRow,
                              updated_token |-> NoRow,
                              overlapped |-> {},
                              committed |-> <<>>,
                              code |-> 0])]
    /\ UNCHANGED <<now, athlete_tokens, last>>

\* the request is answered: its body and the handler's local variables are
\* no more
PgAnswered(request, code) ==
    [request EXCEPT !.pc = "done", !.code = code, !.token_id = 0,
                    !.amount_xlm = 0, !.token = NoRow, !.updated_token = NoRow]

PgAnswer(k, code, detail) ==
    /\ postgres' = [postgres EXCEPT !.requests[k] = PgAnswered(@, code)]
    /\ last' = Response("invest", RowId(postgres.requests[k].token_id), code,
                        detail, 0, 0, 0)
    /\ UNCHANGED <<now, athlete_tokens>>

\* float(investment.amount_xlm) / float(token["adjusted_price_per_token"])
PgTokensToPurchase(amount_xlm, price_per_token) ==
    (amount_xlm * price_per_token.den) \div price_per_token.num

\* The next statement of request k; fails says whether the database fails it.
pg_invest_step(k, fails) ==
    LET request == postgres.requests[k]
        token_id == request.token_id
        token == request.token
    IN
    CASE request.pc = "select" ->
             IF fails
             \* raised outside the handler's try: answered by the framework
             THEN PgAnswer(k, 500, InternalError)
             ELSE /\ postgres' =
                        [postgres EXCEPT
                            !.requests[k].pc = "check",
                            !.requests[k].token =
                                IF token_id \in DOMAIN athlete_tokens
                                THEN athlete_tokens[token_id] ELSE NoRow,
                            !.requests[k].overlapped = PgReaders(token_id)]
                  /\ UNCHANGED <<now, athlete_tokens, last>>
      [] request.pc = "check" ->
             IF token = NoRow
             THEN PgAnswer(k, 404, NotFound)
             ELSE IF token.status # ACTIVE
             THEN PgAnswer(k, 400, InvalidState)
             ELSE IF PgCampaignEnded(now, token.campaign_end_date)
             THEN PgAnswer(k, 400, PgExpired)
             ELSE IF request.amount_xlm > RemainingFunding(token)
             THEN PgAnswer(k, 400, PgExceedsGoal)
             ELSE IF ~HasField("investor_public_key")
             \* building the parameters of the INSERT raises AttributeError
             THEN PgAnswer(k, 500, PgInvestError)
             ELSE IF fails
             THEN PgAnswer(k, 500, PgInvestError)
             ELSE /\ postgres' =
                        [postgres EXCEPT
                            !.investments =
                                Append(@, [athlete_token_id |-> token_id,
                                           amount_xlm |-> request.amount_xlm,
                                           tokens_purchased |->
                                               PgTokensToPurchase(
                                                   request.amount_xlm,
                                                   token.adjusted_price_per_token),
                                           request |-> k]),
                            !.requests[k].pc = "update",
                            !.requests[k].committed = Append(@, "insert")]
                  /\ UNCHANGED <<now, athlete_tokens, last>>
      [] request.pc = "update" ->
             IF fails
             THEN PgAnswer(k, 500, PgInvestError)
             ELSE /\ athlete_tokens' =
                        [athlete_tokens EXCEPT
                            ![token_id].total_raised = @ + request.amount_xlm,
                            ![token_id].tokens_sold =
                                @ + PgTokensToPurchase(
                                        request.amount_xlm,
                                        token.adjusted_price_per_token),
                            ![token_id].investors_count = @ + 1]
                  /\ postgres' =
                        [postgres EXCEPT
                            !.requests[k].pc = "reread",
                            !.requests[k].committed = Append(@, "update")]
                  /\ UNCHANGED <<now, last>>
      [] request.pc = "reread" ->
             IF fails
             THEN PgAnswer(k, 500, PgInvestError)
             ELSE /\ postgres' =
                        [postgres EXCEPT
                            !.requests[k].pc = "complete",
                            !.requests[k].updated_token = athlete_tokens[token_id]]
                  /\ UNCHANGED <<now, athlete_tokens, last>>
      [] request.pc = "complete" ->
             IF request.updated_token.total_raised
                    < request.updated_token.funding_goal
             THEN PgAnswer(k, 200, Ok)
             ELSE IF fails
             THEN PgAnswer(k, 500, PgInvestError)
             ELSE /\ athlete_tokens' =
                        [athlete_tokens EXCEPT ![token_id].status = COMPLETED]
                  /\ postgres' =
                        [postgres EXCEPT
                            !.requests[k] =
                                PgAnswered(
                                    [request EXCEPT
                                        !.committed = Append(@, "complete")],
                                    200)]
                  /\ last' = Response("invest", RowId(token_id), 200, Ok, 0, 0, 0)
                  /\ UNCHANGED now
      [] request.pc = "done" -> FALSE

----------------------------------------------------------------------------
(* The smart-contract variant (src/endpoints_soroban.py) *)

\* RateLimiter(): max_requests and window_seconds
MaxRequestsPerWindow == 100
WindowSeconds == 3600

\* requests the rate limiter may hold at once
MaxRequests == 2

\* get_current_user returns the same user for every request
MockUser == "mock_user"

RateLimited == "Rate limit exceeded"
ContractFailure == "Contract error"

\* PerformanceMetrics of an athlete without results: a valuation of 0.15
MetricsNone ==
    [recent_performance_score |-> 0, potential_score |-> 0,
     media_exposure_score |-> 0]
RequestUnproven ==
    [athlete_data |-> Athlete, performance_metrics |-> MetricsNone,
     tokenomics |-> [total_supply |-> 1000, price_per_token |-> 100,
                     minimum_investment |-> 1000, token_symbol |-> "CCC"],
     funding_goal |-> 100000, campaign_duration_days |-> 30]
SorobanRequests == {RequestUnit, RequestCheap, RequestUnproven}

\* the requests of identifier that RateLimiter.check_rate_limit keeps: those
\* made after window_start
RECURSIVE RecentRequests(_, _)
RecentRequests(times, window_start) ==
    IF times = <<>> THEN <<>>
    ELSE IF Head(times) > window_start
    THEN <<Head(times)>> \o RecentRequests(Tail(times), window_start)
    ELSE RecentRequests(Tail(times), window_start)

RequestsOf(identifier) ==
    IF identifier \in DOMAIN soroban.requests
    THEN soroban.requests[identifier] ELSE <<>>

\* SorobanContractManager.generate_token_id: the SHA-256 of the athlete's
\* name, the clock second and the contract address
generate_token_id(athlete_name, timestamp) == <<athlete_name, timestamp>>

\* the keys f"token:{token_id}" and f"token:key:{token_id}"
TokenKey(token_id) == <<"token", token_id>>
IssuerKey(token_id) == <<"token:key", token_id>>

\* max(0.5, min(2.0, athlete_valuation / 50.0)), in units of 1 / PriceBasis
ValuationMultiplier_Unclamped(athlete_valuation) == athlete_valuation
ValuationMultiplier(athlete_valuation) ==
    Max(PriceBasis \div 2, Min(2 * PriceBasis, athlete_valuation))

\* price_per_token * Decimal(str(valuation_multiplier))
SorobanAdjustedPrice(price_per_token, athlete_valuation) ==
    Fraction(price_per_token * ValuationMultiplier(athlete_valuation), PriceBasis)

\* POST /athletes/create-token.  contract_success is the outcome of the call
\* of the contract on the network.  CacheManager.set leaves the external cache
\* as it is (json is not imported: json.dumps raises NameError before setex is
\* called, and set catches it) and writes memory_cache.
soroban_create_athlete_token(request, contract_success) ==
    LET recent == RecentRequests(RequestsOf(MockUser), now - WindowSeconds)
        athlete_valuation ==
            calculate_athlete_valuation(request.athlete_data,
                                        request.performance_metrics)
        adjusted_price ==
            SorobanAdjustedPrice(request.tokenomics.price_per_token,
                                 athlete_valuation)
        token_id == generate_token_id(request.athlete_data.name, now)
        token_data ==
            [id |-> token_id,
             athlete_data |-> request.athlete_data,
             performance_metrics |-> request.performance_metrics,
             tokenomics |-> request.tokenomics,
             athlete_valuation |-> athlete_valuation,
             adjusted_price_per_token |-> adjusted_price,
             funding_goal |-> request.funding_goal,
             campaign_duration_days |-> request.campaign_duration_days,
             status |-> DRAFT,
             created_at |-> now,
             campaign_end_date |-> now + Days(request.campaign_duration_days),
             valuation_multiplier |-> ValuationMultiplier(athlete_valuation)]
    IN  /\ UNCHANGED now
        /\ IF Len(recent) >= MaxRequestsPerWindow
           THEN /\ soroban' = [soroban EXCEPT
                                  !.requests = Put(@, MockUser, recent)]
                /\ last' = Response("create", NoToken, 429, RateLimited, 0, 0, 0)
           ELSE IF adjusted_price.num <= 0 \/ ~contract_success
           \* create_athlete_token of the contract manager refuses a price
           \* that is not positive, and the network may fail the call
           THEN /\ soroban' = [soroban EXCEPT
                                  !.requests = Put(@, MockUser, Append(recent, now))]
                /\ last' = Response("create", NoToken, 400, ContractFailure,
                                    0, 0, 0)
           ELSE /\ soroban' =
                       [soroban EXCEPT
                           !.requests = Put(@, MockUser, Append(recent, now)),
                           !.memory_cache =
                               Put(Put(@, TokenKey(token_id), token_data),
                                   IssuerKey(token_id),
                                   [issuer_secret |-> "issuer_secret"])]
                /\ last' = Response("create", token_id, 200, Ok, 0, 0,
                                    athlete_valuation)

----------------------------------------------------------------------------
(* The smart-contract variant: activate and invest requests that overlap *)

(* The handlers of endpoints_soroban.py are coroutines: one runs until it   *)
(* awaits a call of the contract (asyncio.to_thread in                      *)
(* _execute_contract_function), and other requests are served meanwhile.    *)
(* CacheManager.get, CacheManager.set and check_rate_limit never suspend.   *)
(* soroban.handlers lists the requests received, each with the await pc it  *)
(* stands at and, once answered, its status code;                           *)
(* soroban.create_campaign_calls counts, per token, the calls of            *)
(* contract_manager.create_campaign.                                        *)

\* activate and invest requests that may be received
MaxHandlers == 3

\* TokenActivationRequest.min_investment: the default and a larger one
ActivationMinimums == {1000, 5000}

SorobanNotActive == "Token not active for investments"

\* f"invest:{current_user['user_id']}"
InvestIdentifier == "invest:mock_user"

\* the key f"campaign:{token_id}"
CampaignKey(token_id) == <<"campaign", token_id>>

\* what _process_simulation_result makes of a simulation
SimulationResult == [decoded_value |-> "decoded", raw_xdr |-> "xdr"]

\* result_data.get(field, default)
GetOr(result_data, field, default) ==
    IF field \in DOMAIN result_data THEN result_data[field] ELSE default

Handlers == DOMAIN soroban.handlers

\* handler k stands at an await
Suspended(k) == soroban.handlers[k].pc # "done"

\* a request answered: nothing of it is kept but its kind and its code
Answered(op, token_id, code) ==
    [op |-> op, token_id |-> token_id, pc |-> "done", code |-> code,
     amount_xlm |-> 0, min_investment |-> 0]

\* a request answered before its first await
AnsweredAtOnce(op, token_id, code, detail) ==
    /\ soroban' = [soroban EXCEPT
                      !.handlers = Append(@, Answered(op, token_id, code))]
    /\ last' = Response(op, token_id, code, detail, 0, 0, 0)

\* handler k answered after an await
AnsweredLater(k, code, detail) ==
    /\ soroban' = [soroban EXCEPT
                      !.handlers[k] = Answered(@.op, @.token_id, code)]
    /\ last' = Response(soroban.handlers[k].op, soroban.handlers[k].token_id,
                        code, detail, 0, 0, 0)

\* the status test of activate_token
SorobanNotDraft(status) == status # DRAFT

\* POST /tokens/{token_id}/activate, up to the await of create_campaign
soroban_activate_received(token_id, min_investment) ==
    LET key == TokenKey(token_id) IN
    /\ UNCHANGED now
    /\ IF key \notin DOMAIN soroban.memory_cache
       THEN AnsweredAtOnce("activate", token_id, 404, NotFound)
       ELSE IF SorobanNotDraft(soroban.memory_cache[key].status)
       THEN AnsweredAtOnce("activate", token_id, 400, AlreadyActivated)
       \* get_current_user gives every request the role admin
       ELSE /\ soroban' =
                   [soroban EXCEPT
                       !.handlers =
                           Append(@, [op |-> "activate", token_id |-> token_id,
                                      pc |-> "create_campaign", code |-> 0,
                                      amount_xlm |-> 0,
                                      min_investment |-> min_investment]),
                       !.create_campaign_calls =
                           Put(@, token_id,
                               GetOr(soroban.create_campaign_calls,
                                     token_id, 0) + 1)]
            /\ UNCHANGED last

\* activate_token from the return of create_campaign; contract_success is the
\* outcome of the call of the contract.  token_data is the dictionary that
\* memory_cache holds: its fields are written in place.
soroban_activate_resumed(k, contract_success) ==
    LET handler == soroban.handlers[k]
        token_id == handler.token_id
        key == TokenKey(token_id)
        token_data == soroban.memory_cache[key]
        campaign_data ==
            [token_id |-> token_id,
             funding_goal |-> token_data.funding_goal,
             duration_days |-> token_data.campaign_duration_days,
             min_investment |-> handler.min_investment,
             total_raised |-> 0, tokens_sold |-> 0, investors_count |-> 0,
             blockchain_created |-> TRUE]
    IN
    /\ handler.op = "activate"
    /\ handler.pc = "create_campaign"
    /\ UNCHANGED now
    /\ IF ~contract_success
       THEN AnsweredLater(k, 400, ContractFailure)
       ELSE /\ soroban' =
                   [soroban EXCEPT
                       !.memory_cache =
                           Put(Put(@, key,
                                   Put(Put(Put(token_data, "status", ACTIVE),
                                           "min_investment",
                                           handler.min_investment),
                                       "activated_at", now)),
                               CampaignKey(token_id), campaign_data),
                       !.handlers[k] = Answered("activate", token_id, 200)]
            /\ last' = Response("activate", token_id, 200, Ok, 0, 0, 0)

\* POST /investments/invest, up to the await of invest_in_token
soroban_invest_received(token_id, amount_xlm) ==
    LET key == TokenKey(token_id)
        identifier == InvestIdentifier
        recent == RecentRequests(RequestsOf(identifier), now - WindowSeconds)
    IN
    /\ UNCHANGED now
    /\ IF key \notin DOMAIN soroban.memory_cache
       THEN AnsweredAtOnce("invest", token_id, 404, NotFound)
       ELSE IF soroban.memory_cache[key].status # ACTIVE
       THEN AnsweredAtOnce("invest", token_id, 400, SorobanNotActive)
       ELSE IF Len(recent) >= MaxRequestsPerWindow
       THEN /\ soroban' =
                   [soroban EXCEPT
                       !.requests = Put(@, identifier, recent),
                       !.handlers = Append(@, Answered("invest", token_id, 429))]
            /\ last' = Response("invest", token_id, 429, RateLimited, 0, 0, 0)
       ELSE IF amount_xlm < GetOr(soroban.memory_cache[key],
                                  "min_investment", 1000)
       THEN /\ soroban' =
                   [soroban EXCEPT
                       !.requests = Put(@, identifier, Append(recent, now)),
                       !.handlers = Append(@, Answered("invest", token_id, 400))]
            /\ last' = Response("invest", token_id, 400, BelowMinimum, 0, 0, 0)
       ELSE /\ soroban' =
                   [soroban EXCEPT
                       !.requests = Put(@, identifier, Append(recent, now)),
                       !.handlers =
                           Append(@, [op |-> "invest", token_id |-> token_id,
                                      pc |-> "invest_in_token", code |-> 0,
                                      amount_xlm |-> amount_xlm,
                                      min_investment |-> 0])]
            /\ UNCHANGED last

\* invest_in_athlete from the return of invest_in_token, then from the return
\* of get_campaign_info; contract_success is the outcome of the call awaited
soroban_invest_resumed(k, contract_success) ==
    LET handler == soroban.handlers[k]
        token_id == handler.token_id
        key == TokenKey(token_id)
        token_data == soroban.memory_cache[key]
        result_data == SimulationResult
        total_raised == GetOr(result_data, "total_raised", 0)
    IN
    /\ handler.op = "invest"
    /\ UNCHANGED now
    /\ CASE handler.pc = "invest_in_token" ->
                IF ~contract_success
                THEN AnsweredLater(k, 400, ContractFailure)
                ELSE /\ soroban' = [soroban EXCEPT
                                       !.handlers[k].pc = "get_campaign_info"]
                     /\ UNCHANGED last
         [] handler.pc = "get_campaign_info" ->
                /\ soroban' =
                       [soroban EXCEPT
                           !.memory_cache =
                               IF ~contract_success THEN @
                               ELSE IF GoalReached(total_raised,
                                                   token_data.funding_goal)
                               THEN Put(Put(@, CampaignKey(token_id),
                                            result_data),
                                        key,
                                        Put(token_data, "status", COMPLETED))
                               ELSE Put(@, CampaignKey(token_id), result_data),
                           !.handlers[k] = Answered("invest", token_id, 200)]
                /\ last' = Response("invest", token_id, 200, Ok,
                                    TokensToPurchase(
                                        handler.amount_xlm,
                                        token_data.adjusted_price_per_token),
                                    0, 0)
         [] OTHER -> FALSE

----------------------------------------------------------------------------
(* The requests *)

\* the token_ids requests name: every campaign's, and one that does not exist
RequestedIds == DOMAIN tokens_db \cup {MissingTokenId}

RECURSIVE SumLen(_, _)
SumLen(db, ids) ==
    IF ids = {} THEN 0
    ELSE LET t == CHOOSE x \in ids : TRUE
         IN  Len(db[t]) + SumLen(db, ids \ {t})

TotalInvestments == SumLen(investments_db, DOMAIN investments_db)

Activate == \E token_id \in RequestedIds : activate_token(token_id)

Invest ==
    /\ TotalInvestments < MaxInvestments
    /\ \E token_id \in RequestedIds, investor \in Investors, amount \in Amounts :
           /\ ValidInvestmentAmount(amount)
           /\ invest_in_athlete(token_id, investor, amount)

Distribute ==
    \E token_id \in RequestedIds, revenue_amount \in RevenueAmounts :
        distribute_revenue(token_id, revenue_amount)

UpdatePerformance ==
    \E token_id \in RequestedIds, metrics \in MetricsSet :
        /\ ValidPerformanceMetrics(metrics)
        /\ update_performance_metrics(token_id, metrics)

\* the row ids requests name: every row's, and one past the last
PgRequestedIds == 1..(Len(athlete_tokens) + 1)

PgCreate ==
    /\ \E request \in CandidateRequests :
           /\ ValidCreateRequest(request)
           /\ Len(athlete_tokens) < MaxTokens
           /\ pg_create_athlete(request)
    /\ UNCHANGED postgres

PgActivate ==
    /\ \E token_id \in PgRequestedIds : pg_activate_token(token_id)
    /\ UNCHANGED postgres

\* an invest request served from its first statement to its answer
PgInvest ==
    /\ \E token_id \in PgRequestedIds, investor \in Investors,
          amount \in PgAmounts :
           /\ ValidInvestmentAmount(amount)
           /\ pg_invest_in_athlete(token_id, investor, amount)
    /\ UNCHANGED postgres

\* amount_xlm of the invest requests that overlap, in cents: two of the
\* first are within the funding goal of 1000 XLM each and past it together
PgOverlappingAmounts == {100000, 150000}

\* invest requests on existing campaigns, served statement by statement
\* among one another
PgInvestReceived ==
    /\ Len(postgres.requests) < MaxPgInvests
    /\ \E token_id \in DOMAIN athlete_tokens, investor \in Investors,
          amount \in PgOverlappingAmounts :
           /\ ValidInvestmentAmount(amount)
           /\ pg_invest_received(token_id, investor, amount)

PgInvestStep ==
    \E k \in PgRequests, fails \in BOOLEAN : pg_invest_step(k, fails)

\* the application of main.py serves the request; the database is not its own
InMemory ==
    /\ variant = MEMORY
    /\ UNCHANGED <<variant, athlete_tokens, scored, soroban, postgres,
                   components>>

\* the router of endpoints.py serves the request; it has no in-memory store
Postgres ==
    /\ variant = POSTGRES
    /\ UNCHANGED <<variant, tokens_db, investments_db, scored, soroban,
                   components>>

\* the campaigns memory_cache holds
CachedTokens ==
    {key \in DOMAIN soroban.memory_cache : key[1] = "token"}

SorobanCreate ==
    \E request \in SorobanRequests, contract_success \in BOOLEAN :
        /\ ValidCreateRequest(request)
        /\ Cardinality(CachedTokens
                       \cup {TokenKey(generate_token_id(
                                          request.athlete_data.name, now))})
               <= MaxTokens
        /\ Len(RecentRequests(RequestsOf(MockUser), now - WindowSeconds))
               < MaxRequests
        /\ soroban_create_athlete_token(request, contract_success)

\* the router of endpoints_soroban.py serves the request
Soroban ==
    /\ variant = SOROBAN
    /\ UNCHANGED <<variant, tokens_db, investments_db, athlete_tokens, scored,
                   postgres, components>>

Next ==
    \/ Tick
    \/ InMemory /\ Create
    \/ InMemory /\ Activate
    \/ InMemory /\ Invest
    \/ InMemory /\ Distribute
    \/ InMemory /\ UpdatePerformance
    \/ Postgres /\ PgCreate
    \/ Postgres /\ PgActivate
    \/ Postgres /\ PgInvest
    \/ Soroban /\ SorobanCreate

Spec == Init /\ [][Next]_vars

\* The router of endpoints.py while invest requests overlap, on campaigns
\* of one kind.
PgInvestInit == Init /\ variant = POSTGRES

PgInvestCreate ==
    /\ ValidCreateRequest(RequestUnit)
    /\ Len(athlete_tokens) < MaxTokens
    /\ pg_create_athlete(RequestUnit)
    /\ UNCHANGED postgres

\* the clock, from the creation of a campaign of 30 days to its expiry
PgInvestInstants == {0, Days(30) + 1}

PgInvestTick ==
    /\ \E t \in PgInvestInstants : t > now /\ now' = t
    /\ UNCHANGED <<tokens_db, investments_db, last, variant, athlete_tokens,
                   scored, soroban, postgres, components>>

PgInvestNext ==
    \/ PgInvestTick
    \/ Postgres /\ PgInvestCreate
    \/ Postgres /\ PgActivate
    \/ Postgres /\ PgInvestReceived
    \/ Postgres /\ PgInvestStep

PgInvestSpec == PgInvestInit /\ [][PgInvestNext]_vars

\* The application of main.py with several campaigns side by side.

\* campaigns that may exist at once, side by side
MaxCampaigns == 2

\* create requests of three symbols, and so of three token_ids in one second
FrameRequests == {RequestUnit, RequestDear, RequestUnproven}

\* amount_xlm of an investment request, in cents: 500 and 1000 XLM
FrameAmounts == {50000, 100000}

FrameInit == Init /\ variant = MEMORY

FrameCreate ==
    \E request \in FrameRequests :
        /\ ValidCreateRequest(request)
        /\ Cardinality(DOMAIN tokens_db
                       \cup {TokenId(request.tokenomics.token_symbol, now)})
               <= MaxCampaigns
        /\ create_athlete_token(request)

FrameInvest ==
    /\ TotalInvestments < MaxInvestments
    /\ \E token_id \in RequestedIds, investor \in Investors,
          amount \in FrameAmounts :
           /\ ValidInvestmentAmount(amount)
           /\ invest_in_athlete(token_id, investor, amount)

\* revenue_amount of a distribution request, in cents: 100 XLM
FrameRevenueAmounts == {10000}

FrameDistribute ==
    \E token_id \in RequestedIds, revenue_amount \in FrameRevenueAmounts :
        distribute_revenue(token_id, revenue_amount)

\* the requests arrive within one second of the clock
FrameNext ==
    \/ InMemory /\ FrameCreate
    \/ InMemory /\ Activate
    \/ InMemory /\ FrameInvest
    \/ InMemory /\ FrameDistribute
    \/ InMemory /\ UpdatePerformance

FrameSpec == FrameInit /\ [][FrameNext]_vars

----------------------------------------------------------------------------
(* The smart-contract variant with requests that overlap: one campaign,    *)
(* created once, and activate and invest requests served await by await    *)

SorobanInvestAmounts == {1000, 100000}

ActivationInit == Init /\ variant = SOROBAN

\* the campaign is created, once
ActivationCreate ==
    \E contract_success \in BOOLEAN :
        /\ CachedTokens = {}
        /\ Len(RequestsOf(MockUser)) < MaxRequests
        /\ soroban_create_athlete_token(RequestUnit, contract_success)

SorobanRequestedIds ==
    {key[2] : key \in CachedTokens} \cup {MissingTokenId}

SorobanActivateReceived ==
    /\ Len(soroban.handlers) < MaxHandlers
    /\ \E token_id \in SorobanRequestedIds, min_investment \in ActivationMinimums :
           soroban_activate_received(token_id, min_investment)

SorobanActivateResumed ==
    \E k \in Handlers, contract_success \in BOOLEAN :
        soroban_activate_resumed(k, contract_success)

SorobanInvestReceived ==
    /\ Len(soroban.handlers) < MaxHandlers
    /\ \E token_id \in SorobanRequestedIds, amount_xlm \in SorobanInvestAmounts :
           soroban_invest_received(token_id, amount_xlm)

SorobanInvestResumed ==
    \E k \in Handlers, contract_success \in BOOLEAN :
        soroban_invest_resumed(k, contract_success)

ActivationNext ==
    \/ Soroban /\ ActivationCreate
    \/ Soroban /\ SorobanActivateReceived
    \/ Soroban /\ SorobanActivateResumed
    \/ Soroban /\ SorobanInvestReceived
    \/ Soroban /\ SorobanInvestResumed

ActivationSpec == ActivationInit /\ [][ActivationNext]_vars

----------------------------------------------------------------------------
(* RateLimiter (src/endpoints_soroban.py), taken alone *)

(* rate_limiter is a RateLimiter(max_requests, window_seconds): its          *)
(* dictionary requests, the calls of check_rate_limit made so far, the      *)
(* outcome of the last one and, for the properties, the log accepted of the  *)
(* calls that returned without raising, each with its identifier and time.  *)

\* calls of check_rate_limit
MaxChecks == 4

\* RateLimiter(max_requests, window_seconds) with small arguments
LimiterMaxRequests == {1, 2}
LimiterWindowSeconds == 2
LimiterIdentifiers == {"mock_user", "invest:mock_user"}
LimiterInstants == 0..4

\* the three applications, serving nothing
ApplicationsIdle ==
    /\ now = 0
    /\ tokens_db = <<>>
    /\ investments_db = <<>>
    /\ last = Response("none", NoToken, 0, "", 0, 0, 0)
    /\ variant = SOROBAN
    /\ athlete_tokens = <<>>
    /\ scored = Unscored(Athlete, MetricsHigh)
    /\ soroban = [memory_cache |-> <<>>, requests |-> <<>>,
                  handlers |-> <<>>, create_campaign_calls |-> <<>>]
    /\ postgres = [investments |-> <<>>, requests |-> <<>>]

ApplicationsUnchanged ==
    UNCHANGED <<tokens_db, investments_db, last, variant, athlete_tokens,
                scored, soroban, postgres>>

\* self.requests[identifier], an empty list when the identifier is new
LimiterRequestsOf(identifier) ==
    IF identifier \in DOMAIN rate_limiter.requests
    THEN rate_limiter.requests[identifier] ELSE <<>>

\* len(self.requests[identifier]) >= self.max_requests
QuotaReached_Strict(requests, max_requests) == Len(requests) > max_requests
QuotaReached(requests, max_requests) == Len(requests) >= max_requests

check_rate_limit(identifier) ==
    LET window_start == now - rate_limiter.window_seconds
        kept == RecentRequests(LimiterRequestsOf(identifier), window_start)
    IN
    IF QuotaReached(kept, rate_limiter.max_requests)
    THEN rate_limiter' =
             [rate_limiter EXCEPT
                 !.requests = Put(@, identifier, kept),
                 !.calls = @ + 1,
                 !.answer = [identifier |-> identifier, code |-> 429]]
    ELSE rate_limiter' =
             [rate_limiter EXCEPT
                 !.requests = Put(@, identifier, Append(kept, now)),
                 !.calls = @ + 1,
                 !.answer = [identifier |-> identifier, code |-> 200],
                 !.accepted = Append(@, [identifier |-> identifier,
                                         time |-> now])]

RateLimiterInit ==
    /\ ApplicationsIdle
    /\ \E max_requests \in LimiterMaxRequests :
           rate_limiter = [max_requests |-> max_requests,
                           window_seconds |-> LimiterWindowSeconds,
                           requests |-> <<>>,
                           calls |-> 0,
                           answer |-> [identifier |-> "", code |-> 0],
                           accepted |-> <<>>]
    /\ contract_call = Idle
    /\ cache = Idle
    /\ batch = Idle

CheckRateLimit ==
    /\ rate_limiter.calls < MaxChecks
    /\ \E identifier \in LimiterIdentifiers : check_rate_limit(identifier)
    /\ ApplicationsUnchanged
    /\ UNCHANGED <<now, contract_call, cache, batch>>

LimiterTick ==
    /\ \E t \in LimiterInstants : t > now /\ now' = t
    /\ ApplicationsUnchanged
    /\ UNCHANGED components

RateLimiterNext ==
    \/ CheckRateLimit
    \/ LimiterTick

RateLimiterSpec == RateLimiterInit /\ [][RateLimiterNext]_vars

----------------------------------------------------------------------------
(* SorobanContractManager._execute_contract_function, taken alone *)

(* contract_call is one call: whether it is read_only, the attempt it is in *)
(* (from 0), the call it awaits (pc), the calls that raised so far, one per *)
(* failed attempt, the seconds slept, the transactions submitted and, once  *)
(* it has returned or raised, its result.  Every call of the libraries      *)
(* (load_account, simulate_transaction, prepare_transaction and sign,       *)
(* submit_transaction) returns or raises; which, is not the code's choice.   *)

MAX_RETRIES == 3
RETRY_DELAY == 2

SIMULATION_ERROR == "SIMULATION_ERROR"
EXECUTION_ERROR == "EXECUTION_ERROR"
MAX_RETRIES_EXCEEDED == "MAX_RETRIES_EXCEEDED"

\* what an awaited call does: it returns, it raises an exception, or (the
\* simulation) it returns an error or no results
CallOutcomes == {"returns", "raises", "error", "empty"}

\* ContractCallResult(success, error_code)
ContractCallResult(success, error_code) ==
    [success |-> success, error_code |-> error_code]

\* attempt == MAX_RETRIES - 1
LastAttempt_Never(attempt) == FALSE
LastAttempt(attempt) == attempt = MAX_RETRIES - 1

\* the function returns result
Returns(result) ==
    contract_call' = [contract_call EXCEPT !.pc = "returned", !.result = result]

\* the call awaited raised an exception other than ContractError
AttemptFails ==
    IF LastAttempt(contract_call.attempt)
    THEN contract_call' =
             [contract_call EXCEPT
                 !.failures = Append(@, contract_call.pc),
                 !.pc = "returned",
                 !.result = ContractCallResult(FALSE, EXECUTION_ERROR)]
    ELSE contract_call' =
             [contract_call EXCEPT
                 !.failures = Append(@, contract_call.pc),
                 !.pc = "sleep"]

\* the function runs up to its next await, or to its end
execute_contract_function(outcome) ==
    CASE contract_call.pc = "load_account" ->
             IF outcome = "raises" THEN AttemptFails
             ELSE contract_call' = [contract_call EXCEPT !.pc = "simulate"]
      [] contract_call.pc = "simulate" ->
             IF outcome = "raises" THEN AttemptFails
             ELSE IF outcome = "error"
             \* raise ContractError: caught and raised again
             THEN contract_call' =
                      [contract_call EXCEPT
                          !.pc = "raised",
                          !.result = ContractCallResult(FALSE, SIMULATION_ERROR)]
             ELSE IF contract_call.read_only
             THEN Returns(ContractCallResult(outcome # "empty", ""))
             ELSE contract_call' = [contract_call EXCEPT !.pc = "prepare"]
      [] contract_call.pc = "prepare" ->
             IF outcome = "raises" THEN AttemptFails
             ELSE contract_call' = [contract_call EXCEPT !.pc = "submit"]
      [] contract_call.pc = "submit" ->
             IF outcome = "raises" THEN AttemptFails
             ELSE contract_call' =
                      [contract_call EXCEPT
                          !.submitted = @ + 1,
                          !.pc = "returned",
                          !.result = ContractCallResult(TRUE, "")]
      [] contract_call.pc = "sleep" ->
             IF contract_call.attempt + 1 < MAX_RETRIES
             THEN contract_call' =
                      [contract_call EXCEPT
                          !.slept = @ + RETRY_DELAY * (contract_call.attempt + 1),
                          !.attempt = @ + 1,
                          !.pc = "load_account"]
             \* range(MAX_RETRIES) is exhausted: the return after the loop
             ELSE contract_call' =
                      [contract_call EXCEPT
                          !.slept = @ + RETRY_DELAY * (contract_call.attempt + 1),
                          !.pc = "returned",
                          !.result = ContractCallResult(FALSE,
                                                        MAX_RETRIES_EXCEEDED)]
      [] OTHER -> FALSE

ContractCallInit ==
    /\ ApplicationsIdle
    /\ \E read_only \in BOOLEAN :
           contract_call = [read_only |-> read_only,
                            attempt |-> 0,
                            pc |-> "load_account",
                            failures |-> <<>>,
                            slept |-> 0,
                            submitted |-> 0,
                            result |-> ContractCallResult(FALSE, "")]
    /\ rate_limiter = Idle
    /\ cache = Idle
    /\ batch = Idle

ExecuteContractFunction ==
    /\ \E outcome \in CallOutcomes : execute_contract_function(outcome)
    /\ ApplicationsUnchanged
    /\ UNCHANGED <<now, rate_limiter, cache, batch>>

ContractCallNext == ExecuteContractFunction

\* every awaited call returns or raises in the end, and the sleep ends
ContractCallSpec ==
    ContractCallInit /\ [][ContractCallNext]_vars /\ WF_vars(ContractCallNext)

----------------------------------------------------------------------------
(* CacheManager (src/endpoints_soroban.py), taken alone *)

(* cache is a CacheManager: its memory_cache, the external cache behind it  *)
(* (absent: redis_client is None; raising: every call of it raises;         *)
(* available: its calls return, and external holds its keys) and, for the   *)
(* properties, what set and delete were last asked (written: the value last *)
(* set for each key not deleted since) and what the last get returned.      *)

CacheKeys == {"token:1", "campaign:1"}
CacheValues == {"v", "w"}
ExternalCaches == {"absent", "raising", "available"}

\* None
Nothing == "None"

\* the modules endpoints_soroban.py imports by name
ImportedModules == {"asyncio", "logging", "redis", "os"}

\* the name evaluates; otherwise NameError is raised
Imported(name) == name \in ImportedModules

\* dict.get(key): None when the key is missing
DictGet(d, key) == IF key \in DOMAIN d THEN d[key] ELSE Nothing

\* dict.pop(key, None)
DictPop(d, key) == [x \in DOMAIN d \ {key} |-> d[x]]

\* CacheManager.get: what it returns
cache_get(key) ==
    IF cache.redis_client = "available"
    THEN LET data == DictGet(cache.external, key) IN
         IF data = Nothing
         THEN Nothing
         ELSE IF Imported("json")
         THEN data
         \* json.loads raises NameError, which is caught
         ELSE DictGet(cache.memory_cache, key)
    \* no redis_client, or its call raised and the exception was caught
    ELSE DictGet(cache.memory_cache, key)

CacheGet(key) ==
    cache' = [cache EXCEPT
                 !.returned = [key |-> key,
                               value |-> cache_get(key),
                               written |-> DictGet(cache.written, key)]]

\* CacheManager.set
CacheSet(key, value) ==
    cache' = [cache EXCEPT
                 !.external =
                     IF cache.redis_client = "available" /\ Imported("json")
                     THEN Put(@, key, value)
                     \* json.dumps raises NameError before setex is called
                     ELSE @,
                 !.memory_cache = Put(@, key, value),
                 !.written = Put(@, key, value)]

\* CacheManager.delete
CacheDelete(key) ==
    cache' = [cache EXCEPT
                 !.external =
                     IF cache.redis_client = "available"
                     THEN DictPop(@, key) ELSE @,
                 !.memory_cache = DictPop(@, key),
                 !.written = DictPop(@, key)]

NothingReturned == [key |-> "", value |-> Nothing, written |-> Nothing]

CacheInit ==
    /\ ApplicationsIdle
    /\ \E redis_client \in ExternalCaches :
           cache = [redis_client |-> redis_client,
                    external |-> <<>>,
                    memory_cache |-> <<>>,
                    written |-> <<>>,
                    returned |-> NothingReturned]
    /\ rate_limiter = Idle
    /\ contract_call = Idle
    /\ batch = Idle

CacheUnchanged ==
    /\ ApplicationsUnchanged
    /\ UNCHANGED <<now, rate_limiter, contract_call, batch>>

Get == (\E key \in CacheKeys : CacheGet(key)) /\ CacheUnchanged

Set ==
    (\E key \in CacheKeys, value \in CacheValues : CacheSet(key, value))
        /\ CacheUnchanged

Delete == (\E key \in CacheKeys : CacheDelete(key)) /\ CacheUnchanged

CacheNext ==
    \/ Get
    \/ Set
    \/ Delete

CacheSpec == CacheInit /\ [][CacheNext]_vars

----------------------------------------------------------------------------
(* BatchOperationManager.batch_create_tokens, taken alone *)

(* batch is one call: token_configs, max_concurrent, the value of the       *)
(* semaphore, one task per config with the place it is at (waiting for the  *)
(* semaphore, in flight in create_athlete_token, done) and its result, and, *)
(* once gather has returned, the dictionary results in insertion order.     *)

\* configs in a batch
MaxConfigs == 3

BatchConfigs == <<"config_0", "config_1", "config_2", "config_3">>
BatchConcurrency == {1, 2}

BATCH_ERROR == "BATCH_ERROR"

\* how a call of create_athlete_token ends: with a successful result, with an
\* unsuccessful one, or with an exception
CreateOutcomes == {"success", "failure", "raises"}

\* the ContractCallResult of the task of config
BatchResult(config, outcome) ==
    [config |-> config,
     success |-> outcome = "success",
     error_code |-> CASE outcome = "success" -> ""
                      [] outcome = "failure" -> "UNEXPECTED_ERROR"
                      [] OTHER -> BATCH_ERROR]

NoResult == [config |-> "", success |-> FALSE, error_code |-> ""]

Tasks == DOMAIN batch.tasks

InFlight == {i \in Tasks : batch.tasks[i].pc = "in_flight"}

\* the semaphore can be acquired at once
SemaphoreFree_Always(value) == TRUE
SemaphoreFree(value) == value > 0

\* async with semaphore: task i enters and calls create_athlete_token
create_single_token_enters(i) ==
    /\ batch.tasks[i].pc = "waiting"
    /\ SemaphoreFree(batch.semaphore)
    /\ batch' = [batch EXCEPT !.semaphore = @ - 1,
                              !.tasks[i].pc = "in_flight"]

\* the call of task i ends, and the task leaves the semaphore
create_single_token_returns(i, outcome) ==
    /\ batch.tasks[i].pc = "in_flight"
    /\ batch' = [batch EXCEPT
                    !.semaphore = @ + 1,
                    !.tasks[i] =
                        [pc |-> "done",
                         result |-> BatchResult(batch.token_configs[i],
                                                outcome)]]

\* the key f"token_{i}"
ResultKey(i) == <<"token", i>>

\* asyncio.gather returns the results in the order of the tasks, and the
\* loop stores them under token_0, token_1, ...
batch_returns ==
    /\ ~batch.returned
    /\ \A i \in Tasks : batch.tasks[i].pc = "done"
    /\ batch' = [batch EXCEPT
                    !.returned = TRUE,
                    !.results = [i \in Tasks |->
                                     [key |-> ResultKey(i - 1),
                                      result |-> batch.tasks[i].result]]]

BatchInit ==
    /\ ApplicationsIdle
    /\ \E n \in 0..MaxConfigs, max_concurrent \in BatchConcurrency :
           batch = [token_configs |-> SubSeq(BatchConfigs, 1, n),
                    max_concurrent |-> max_concurrent,
                    semaphore |-> max_concurrent,
                    tasks |-> [i \in 1..n |-> [pc |-> "waiting",
                                               result |-> NoResult]],
                    results |-> <<>>,
                    returned |-> FALSE]
    /\ rate_limiter = Idle
    /\ contract_call = Idle
    /\ cache = Idle

BatchUnchanged ==
    /\ ApplicationsUnchanged
    /\ UNCHANGED <<now, rate_limiter, contract_call, cache>>

TaskEnters == (\E i \in Tasks : create_single_token_enters(i)) /\ BatchUnchanged

TaskReturns ==
    (\E i \in Tasks, outcome \in CreateOutcomes :
         create_single_token_returns(i, outcome)) /\ BatchUnchanged

BatchReturns == batch_returns /\ BatchUnchanged

BatchNext ==
    \/ TaskEnters
    \/ TaskReturns
    \/ BatchReturns

\* every call of create_athlete_token ends, and the event loop runs every
\* task that can run
BatchSpec == BatchInit /\ [][BatchNext]_vars /\ WF_vars(BatchNext)

----------------------------------------------------------------------------
(* Properties of the in-memory ledger *)

Campaigns == DOMAIN tokens_db

RECURSIVE SumOfAmounts(_)
SumOfAmounts(investments) ==
    IF investments = <<>> THEN 0
    ELSE investments[1].amount_xlm + SumOfAmounts(Tail(investments))

\* the handler calls named by the claims about "later calls on a campaign"
LedgerCalls == {"activate", "invest", "distribute", "performance"}

\* C1: after any sequence of create, activate, invest, distribute and
\* performance-update calls, every campaign has tokens_sold <= total_supply.
C1_TokensSoldWithinSupply ==
    \A t \in Campaigns :
        tokens_db[t].tokens_sold <= tokens_db[t].tokenomics.total_supply

\* an invest was refused for lack of supply on a campaign that has sold tokens
C1_Witness ==
    /\ last.op = "invest" /\ last.detail = InsufficientSupply
    /\ last.token_id \in Campaigns
    /\ tokens_db[last.token_id].tokens_sold > 0

\* C2: in every reachable state a campaign's total_raised equals the sum of
\* amount_xlm over the investment records stored for it in investments_db.
C2_RaisedIsSumOfAmounts ==
    \A t \in Campaigns :
        tokens_db[t].total_raised = SumOfAmounts(investments_db[t])

\* a campaign holds two investment records
C2_Witness ==
    \E t \in Campaigns :
        /\ Len(investments_db[t]) = 2
        /\ tokens_db[t].total_raised
               = investments_db[t][1].amount_xlm + investments_db[t][2].amount_xlm

\* C3: in every reachable state a campaign's investors_count equals the
\* number of its investment records, one per accepted invest call, so that
\* two investments from the same address count twice.
C3_CountIsNumberOfRecords ==
    \A t \in Campaigns :
        tokens_db[t].investors_count = Len(investments_db[t])

\* one address has invested twice in a campaign, which counts two investors
C3_Witness ==
    \E t \in Campaigns :
        /\ Len(investments_db[t]) = 2
        /\ investments_db[t][1].investor_address
               = investments_db[t][2].investor_address
        /\ tokens_db[t].investors_count = 2

\* C4: in every reachable state a campaign is completed if and only if its
\* total_raised >= funding_goal (a draft or active one has raised less).
C4_CompletedIffGoalReached ==
    \A t \in Campaigns :
        (tokens_db[t].status = COMPLETED)
            <=> (tokens_db[t].total_raised >= tokens_db[t].funding_goal)

\* a campaign completed by reaching its goal exactly, after two investments
C4_Witness ==
    \E t \in Campaigns :
        /\ tokens_db[t].status = COMPLETED
        /\ tokens_db[t].total_raised = tokens_db[t].funding_goal
        /\ Len(investments_db[t]) = 2

\* C5: once a campaign is completed it stays completed: no later activate,
\* invest, distribute or performance-update call changes its status.
C5_CompletedIsFinal ==
    [][\A t \in Campaigns :
          (tokens_db[t].status = COMPLETED /\ last'.op \in LedgerCalls)
              => (t \in DOMAIN tokens_db' /\ tokens_db'[t].status = COMPLETED)]_vars

\* activate was called on a completed campaign, and refused
C5_Witness ==
    /\ last.op = "activate" /\ last.detail = AlreadyActivated
    /\ last.token_id \in Campaigns
    /\ tokens_db[last.token_id].status = COMPLETED

----------------------------------------------------------------------------
(* Properties of invest_in_athlete's refusals.  A step of the call        *)
(* invest(t, i, a) is a step that satisfies invest_in_athlete(t, i, a).    *)

\* floor(amount / price per token), the price being the campaign's adjusted one
FloorOfAmountOverPrice(t, a) ==
    (a * tokens_db[t].adjusted_price_per_token.den)
        \div tokens_db[t].adjusted_price_per_token.num

RemainingSupply(t) ==
    tokens_db[t].tokenomics.total_supply - tokens_db[t].tokens_sold

HasMinimum(t) == tokens_db[t].tokenomics.minimum_investment # NoneValue

\* the step leaves t's counters and investment list as they were
CountersKept(t) ==
    /\ t \in DOMAIN tokens_db'
    /\ tokens_db'[t].total_raised = tokens_db[t].total_raised
    /\ tokens_db'[t].tokens_sold = tokens_db[t].tokens_sold
    /\ tokens_db'[t].investors_count = tokens_db[t].investors_count
    /\ investments_db'[t] = investments_db[t]

StatusKept(t) == tokens_db'[t].status = tokens_db[t].status

\* the step serves an invest request (every invest_in_athlete step does)
InvestServed == last'.op = "invest"

\* likewise for create and for activate requests
CreateServed == last'.op = "create"
ActivateServed == last'.op = "activate"

\* t is active, its window has not elapsed, and a is at least its minimum
PassesStatusExpiryMinimum(t, a) ==
    /\ tokens_db[t].status = ACTIVE
    /\ now <= tokens_db[t].campaign_end_date
    /\ HasMinimum(t)
    /\ a >= tokens_db[t].tokenomics.minimum_investment

\* C6: invest on a draft campaign always fails with the invalid-state error,
\* for every amount and investor, and leaves total_raised, tokens_sold,
\* investors_count and the investment list unchanged.
C6_InvestOnDraftFails ==
    [][\A t \in Campaigns, i \in Investors, a \in Amounts :
          ( /\ InvestServed
            /\ tokens_db[t].status = DRAFT
            /\ invest_in_athlete(t, i, a) )
              => /\ last'.code = 400 /\ last'.detail = InvalidState
                 /\ CountersKept(t)]_vars

\* an invest on a campaign still in draft was refused as invalid state
C6_Witness ==
    /\ last.op = "invest" /\ last.detail = InvalidState
    /\ last.token_id \in Campaigns
    /\ tokens_db[last.token_id].status = DRAFT
    /\ tokens_db[last.token_id].stellar_asset = ""

\* C7: invest on an active, unexpired campaign with amount below
\* minimum_investment always fails with the below-minimum error and leaves
\* total_raised, tokens_sold, investors_count, status and the investment list
\* unchanged.
C7_BelowMinimumFails ==
    [][\A t \in Campaigns, i \in Investors, a \in Amounts :
          ( /\ InvestServed
            /\ tokens_db[t].status = ACTIVE
            /\ now <= tokens_db[t].campaign_end_date
            /\ HasMinimum(t)
            /\ a < tokens_db[t].tokenomics.minimum_investment
            /\ invest_in_athlete(t, i, a) )
              => /\ last'.code = 400 /\ last'.detail = BelowMinimum
                 /\ CountersKept(t) /\ StatusKept(t)]_vars

\* an invest on an active, unexpired campaign was refused as below the minimum
C7_Witness ==
    /\ last.op = "invest" /\ last.detail = BelowMinimum
    /\ last.token_id \in Campaigns
    /\ tokens_db[last.token_id].status = ACTIVE
    /\ now <= tokens_db[last.token_id].campaign_end_date

\* no investment record of zero tokens is stored after the step
NoZeroTokenRecord ==
    \A t \in DOMAIN investments_db' :
        \A k \in 1..Len(investments_db'[t]) :
            investments_db'[t][k].tokens_purchased >= 1

\* C8 as stated: invest with an amount for which floor(amount / price) is 0
\* fails with the amount-too-small error; no record with tokens_purchased = 0
\* is ever stored.
C8_ZeroTokensAlwaysTooSmall ==
    [][/\ \A t \in Campaigns, i \in Investors, a \in Amounts :
             ( /\ InvestServed
               /\ FloorOfAmountOverPrice(t, a) = 0
               /\ invest_in_athlete(t, i, a) )
                 => (last'.code = 400 /\ last'.detail = AmountTooSmall)
       /\ NoZeroTokenRecord]_vars

\* C8 as amended: invest on an active, unexpired campaign with an amount that
\* is at least minimum_investment and for which floor(amount / price) is 0
\* fails with the amount-too-small error; no record with tokens_purchased = 0
\* is ever stored.
C8_ZeroTokensTooSmallAfterEarlierChecks ==
    [][/\ \A t \in Campaigns, i \in Investors, a \in Amounts :
             ( /\ InvestServed
               /\ PassesStatusExpiryMinimum(t, a)
               /\ FloorOfAmountOverPrice(t, a) = 0
               /\ invest_in_athlete(t, i, a) )
                 => (last'.code = 400 /\ last'.detail = AmountTooSmall)
       /\ NoZeroTokenRecord]_vars

\* an invest that passed the minimum was refused for buying no token
C8_Witness ==
    /\ last.op = "invest" /\ last.detail = AmountTooSmall
    /\ last.token_id \in Campaigns
    /\ tokens_db[last.token_id].status = ACTIVE
    /\ \E a \in Amounts :
           /\ a >= tokens_db[last.token_id].tokenomics.minimum_investment
           /\ FloorOfAmountOverPrice(last.token_id, a) = 0

\* C9 as stated: invest whose floor(amount / price) exceeds
\* total_supply - tokens_sold fails with the insufficient-supply error, the
\* error reports exactly total_supply - tokens_sold, and the campaign state is
\* unchanged.
C9_OverSupplyAlwaysInsufficient ==
    [][\A t \in Campaigns, i \in Investors, a \in Amounts :
          ( /\ InvestServed
            /\ FloorOfAmountOverPrice(t, a) > RemainingSupply(t)
            /\ invest_in_athlete(t, i, a) )
              => /\ last'.code = 400 /\ last'.detail = InsufficientSupply
                 /\ last'.remaining = RemainingSupply(t)
                 /\ tokens_db'[t] = tokens_db[t]
                 /\ investments_db'[t] = investments_db[t]]_vars

\* C9 as amended: invest on an active, unexpired campaign with an amount that
\* is at least minimum_investment and whose floor(amount / price) exceeds
\* total_supply - tokens_sold fails with the insufficient-supply error, the
\* error reports exactly total_supply - tokens_sold, and the campaign state is
\* unchanged.
C9_OverSupplyInsufficientAfterEarlierChecks ==
    [][\A t \in Campaigns, i \in Investors, a \in Amounts :
          ( /\ InvestServed
            /\ PassesStatusExpiryMinimum(t, a)
            /\ FloorOfAmountOverPrice(t, a) > RemainingSupply(t)
            /\ invest_in_athlete(t, i, a) )
              => /\ last'.code = 400 /\ last'.detail = InsufficientSupply
                 /\ last'.remaining = RemainingSupply(t)
                 /\ tokens_db'[t] = tokens_db[t]
                 /\ investments_db'[t] = investments_db[t]]_vars

\* an invest was refused for lack of supply, reporting what remains after an
\* earlier sale
C9_Witness ==
    /\ last.op = "invest" /\ last.detail = InsufficientSupply
    /\ last.token_id \in Campaigns
    /\ Len(investments_db[last.token_id]) >= 1
    /\ last.remaining = RemainingSupply(last.token_id)
    /\ last.remaining > 0

\* The preconditions of invest in their order: 1 the campaign exists, 2 it is
\* active, 3 it has not expired, 4 amount >= minimum, 5 at least one token is
\* bought, 6 enough supply remains; and the error of each.
PreconditionError ==
    <<NotFound, InvalidState, Expired, BelowMinimum, AmountTooSmall,
      InsufficientSupply>>

ViolatedPreconditions(t, a) ==
    IF t \notin Campaigns THEN {1}
    ELSE {n \in 2..6 :
            \/ n = 2 /\ tokens_db[t].status # ACTIVE
            \/ n = 3 /\ now > tokens_db[t].campaign_end_date
            \/ n = 4 /\ HasMinimum(t)
                     /\ a < tokens_db[t].tokenomics.minimum_investment
            \/ n = 5 /\ FloorOfAmountOverPrice(t, a) = 0
            \/ n = 6 /\ FloorOfAmountOverPrice(t, a) > RemainingSupply(t)}

FirstOf(S) == CHOOSE n \in S : \A m \in S : n <= m

\* C10: invest evaluates its preconditions in the fixed order exists, active,
\* not expired, amount >= minimum, at least one token, enough supply; when
\* several are violated the error returned is that of the first violated one.
C10_FirstViolatedPreconditionWins ==
    [][InvestServed =>
          \A t \in RequestedIds, i \in Investors, a \in Amounts :
              ( /\ t = last'.token_id
                /\ Cardinality(ViolatedPreconditions(t, a)) >= 2
                /\ invest_in_athlete(t, i, a) )
                  => last'.detail
                         = PreconditionError[FirstOf(ViolatedPreconditions(t, a))]]_vars

\* an invest below the minimum that would also have bought no token was
\* refused as below the minimum, on an active, unexpired campaign
C10_Witness ==
    /\ last.op = "invest" /\ last.detail = BelowMinimum
    /\ last.token_id \in Campaigns
    /\ tokens_db[last.token_id].status = ACTIVE
    /\ now <= tokens_db[last.token_id].campaign_end_date
    /\ \A a \in Amounts :
           a < tokens_db[last.token_id].tokenomics.minimum_investment
               => FloorOfAmountOverPrice(last.token_id, a) = 0

----------------------------------------------------------------------------
(* Properties of accepted investments and of completed campaigns *)

\* the step appends one record, of amount a from address i, to t's list
OneRecordAppended(t, i, a) ==
    /\ Len(investments_db'[t]) = Len(investments_db[t]) + 1
    /\ SubSeq(investments_db'[t], 1, Len(investments_db[t])) = investments_db[t]
    /\ investments_db'[t][Len(investments_db'[t])].amount_xlm = a
    /\ investments_db'[t][Len(investments_db'[t])].investor_address = i

\* C11: a successful invest appends exactly one investment record and, in the
\* same step, increases total_raised by amount, tokens_sold by
\* floor(amount / price_per_token) and investors_count by 1; the returned
\* remaining_tokens equals total_supply - tokens_sold after the update.
C11_AcceptedInvestUpdatesCounters ==
    [][InvestServed =>
          \A t \in Campaigns, i \in Investors, a \in Amounts :
              ( /\ t = last'.token_id
                /\ last'.code = 200
                /\ invest_in_athlete(t, i, a) )
                  => /\ OneRecordAppended(t, i, a)
                     /\ tokens_db'[t].total_raised = tokens_db[t].total_raised + a
                     /\ tokens_db'[t].tokens_sold
                            = tokens_db[t].tokens_sold + FloorOfAmountOverPrice(t, a)
                     /\ tokens_db'[t].investors_count
                            = tokens_db[t].investors_count + 1
                     /\ last'.remaining
                            = tokens_db'[t].tokenomics.total_supply
                                  - tokens_db'[t].tokens_sold]_vars

\* the second investment of a campaign was accepted, and the response reports
\* what remains after both
C11_Witness ==
    /\ last.op = "invest" /\ last.code = 200
    /\ last.token_id \in Campaigns
    /\ Len(investments_db[last.token_id]) = 2
    /\ last.tokens = investments_db[last.token_id][2].tokens_purchased
    /\ last.remaining = RemainingSupply(last.token_id)

\* the remaining checks pass: a buys at least one token and no more than remain
PassesTokenAndSupply(t, a) ==
    /\ FloorOfAmountOverPrice(t, a) >= 1
    /\ FloorOfAmountOverPrice(t, a) <= RemainingSupply(t)

\* C12: an invest that passes the status, expiry, minimum, token and supply
\* checks is accepted even when amount exceeds funding_goal - total_raised
\* (or equals it); the investment is recorded in the investment list and the
\* campaign becomes completed in that same call.
C12_GoalReachingInvestAccepted ==
    [][InvestServed =>
          \A t \in Campaigns, i \in Investors, a \in Amounts :
              ( /\ t = last'.token_id
                /\ PassesStatusExpiryMinimum(t, a)
                /\ PassesTokenAndSupply(t, a)
                /\ a >= tokens_db[t].funding_goal - tokens_db[t].total_raised
                /\ invest_in_athlete(t, i, a) )
                  => /\ last'.code = 200
                     /\ OneRecordAppended(t, i, a)
                     /\ tokens_db'[t].status = COMPLETED]_vars

\* an accepted investment overshot the goal and completed the campaign
C12_Witness ==
    /\ last.op = "invest" /\ last.code = 200
    /\ last.token_id \in Campaigns
    /\ tokens_db[last.token_id].status = COMPLETED
    /\ tokens_db[last.token_id].total_raised > tokens_db[last.token_id].funding_goal
    /\ Len(investments_db[last.token_id]) = 2

\* C14: after a campaign has become completed, every subsequent invest on it
\* fails with the invalid-state error and leaves total_raised, tokens_sold,
\* investors_count and the investment list unchanged.
C14_InvestOnCompletedFails ==
    [][InvestServed =>
          \A t \in Campaigns, i \in Investors, a \in Amounts :
              ( /\ t = last'.token_id
                /\ tokens_db[t].status = COMPLETED
                /\ invest_in_athlete(t, i, a) )
                  => /\ last'.code = 400 /\ last'.detail = InvalidState
                     /\ CountersKept(t) /\ StatusKept(t)]_vars

\* an invest on a completed campaign that still has supply was refused
C14_Witness ==
    /\ last.op = "invest" /\ last.detail = InvalidState
    /\ last.token_id \in Campaigns
    /\ tokens_db[last.token_id].status = COMPLETED
    /\ RemainingSupply(last.token_id) > 0

----------------------------------------------------------------------------
(* Properties of create, of activation and of the campaign window *)

\* C16 as stated: activate on a draft campaign whose campaign end time has
\* already passed fails with the expired error and leaves the status draft, so
\* that no campaign becomes active after its window has elapsed.
C16_ActivateAfterWindowFails ==
    [][\A t \in Campaigns :
          ( /\ ActivateServed
            /\ tokens_db[t].status = DRAFT
            /\ now > tokens_db[t].campaign_end_date
            /\ activate_token(t) )
              => /\ last'.code = 400 /\ last'.detail = Expired
                 /\ tokens_db'[t].status = DRAFT]_vars

\* C17: with a monotonic clock, once the current time exceeds an active
\* campaign's end time every later invest on it fails with the expired error,
\* and its total_raised, tokens_sold, investors_count and investment list
\* never change again.  (The condition "active and past its end" is kept by
\* every step, so what holds of one step from it holds of all later ones.)
C17_ExpiredCampaignIsFrozen ==
    [][\A t \in Campaigns :
          (tokens_db[t].status = ACTIVE /\ now > tokens_db[t].campaign_end_date)
              => /\ CountersKept(t) /\ StatusKept(t)
                 /\ tokens_db'[t].campaign_end_date = tokens_db[t].campaign_end_date
                 /\ now' > tokens_db'[t].campaign_end_date
                 /\ \A i \in Investors, a \in Amounts :
                        (InvestServed /\ invest_in_athlete(t, i, a))
                            => (last'.code = 400 /\ last'.detail = Expired)]_vars

\* an invest on an active campaign that holds an investment was refused as
\* expired, one second after the campaign's end
C17_Witness ==
    /\ last.op = "invest" /\ last.detail = Expired
    /\ last.token_id \in Campaigns
    /\ tokens_db[last.token_id].status = ACTIVE
    /\ now = tokens_db[last.token_id].campaign_end_date + 1
    /\ Len(investments_db[last.token_id]) >= 1

\* C18: create always yields a campaign with status draft, total_raised = 0,
\* tokens_sold = 0, investors_count = 0 and an empty investment list.
C18_CreateYieldsEmptyDraft ==
    [][\A request \in CandidateRequests :
          (CreateServed /\ create_athlete_token(request))
              => /\ last'.token_id \in DOMAIN tokens_db'
                 /\ tokens_db'[last'.token_id].status = DRAFT
                 /\ tokens_db'[last'.token_id].total_raised = 0
                 /\ tokens_db'[last'.token_id].tokens_sold = 0
                 /\ tokens_db'[last'.token_id].investors_count = 0
                 /\ investments_db'[last'.token_id] = <<>>]_vars

\* a campaign was created after the clock had advanced, and is an empty draft
C18_Witness ==
    /\ last.op = "create" /\ last.code = 200
    /\ last.token_id \in Campaigns
    /\ now > 0
    /\ tokens_db[last.token_id].created_at = now
    /\ tokens_db[last.token_id].status = DRAFT
    /\ investments_db[last.token_id] = <<>>

\* C19 as stated: every created campaign gets an identifier distinct from all
\* existing campaigns: a create never overwrites an existing campaign's record
\* or resets its investment list.
C19_CreateNeverOverwrites ==
    [][\A request \in CandidateRequests :
          (CreateServed /\ create_athlete_token(request))
              => /\ last'.token_id \notin Campaigns
                 /\ \A t \in Campaigns :
                        /\ tokens_db'[t] = tokens_db[t]
                        /\ investments_db'[t] = investments_db[t]]_vars

\* the investment records, each named by its campaign and its position
InvestmentRecords ==
    {r \in (DOMAIN investments_db) \X (1..MaxInvestments) :
        r[2] <= Len(investments_db[r[1]])}

\* C20 as stated: every investment record carries a transaction reference that
\* is unique among all investment records.
C20_TransactionIdsUnique ==
    \A r1, r2 \in InvestmentRecords :
        r1 # r2 => investments_db[r1[1]][r1[2]].transaction_id
                       # investments_db[r2[1]][r2[2]].transaction_id

----------------------------------------------------------------------------
(* Properties of the Postgres variant *)

Rows == DOMAIN athlete_tokens

\* C13 as stated: in the Postgres-backed variant, an invest on an active,
\* unexpired campaign whose amount would take total_raised past funding_goal
\* always succeeds and completes the campaign.
C13_PgOvershootingInvestAccepted ==
    [][\A n \in Rows, i \in Investors, a \in PgAmounts :
          ( /\ athlete_tokens[n].status = ACTIVE
            /\ now <= athlete_tokens[n].campaign_end_date
            /\ athlete_tokens[n].total_raised + a > athlete_tokens[n].funding_goal
            /\ pg_invest_in_athlete(n, i, a) )
              => /\ last'.code = 200
                 /\ athlete_tokens'[n].status = COMPLETED]_vars

\* the step leaves every campaign of both stores as it was
LedgerKept ==
    /\ tokens_db' = tokens_db
    /\ investments_db' = investments_db
    /\ athlete_tokens' = athlete_tokens

\* activate on a campaign that is not draft fails with the invalid-state error
\* and leaves the campaign unchanged, in both variants
ActivateOnNonDraftFails ==
    /\ \A t \in Campaigns :
           (ActivateServed /\ tokens_db[t].status # DRAFT /\ activate_token(t))
               => /\ last'.code = 400 /\ last'.detail = AlreadyActivated
                  /\ LedgerKept
    /\ \A n \in Rows :
           ( /\ ActivateServed
             /\ athlete_tokens[n].status # DRAFT
             /\ pg_activate_token(n) )
               => /\ last'.code = 400 /\ last'.detail = PgNotDraft
                  /\ LedgerKept

\* no call on an existing campaign puts it back to draft, so that an
\* activated campaign cannot be activated again
NoReturnToDraft ==
    /\ \A t \in Campaigns :
           (tokens_db[t].status # DRAFT /\ last'.op \in LedgerCalls)
               => (t \in DOMAIN tokens_db' /\ tokens_db'[t].status # DRAFT)
    /\ \A n \in Rows :
           athlete_tokens[n].status # DRAFT
               => (n \in DOMAIN athlete_tokens' /\ athlete_tokens'[n].status # DRAFT)

----------------------------------------------------------------------------
(* Properties of the investment lists and of distribute_revenue *)

\* C21 as stated: a campaign's investment list is append-only: after any
\* operation the previous list is a prefix of the new list, and no existing
\* investment record is modified or removed.
C21_InvestmentListAppendOnly ==
    [][\A t \in Campaigns :
          /\ t \in DOMAIN investments_db'
          /\ Len(investments_db'[t]) >= Len(investments_db[t])
          /\ SubSeq(investments_db'[t], 1, Len(investments_db[t]))
                 = investments_db[t]]_vars

DistributeServed == last'.op = "distribute"

\* C22: distribute on a campaign with no investment records fails with the
\* no-investors error, whatever the campaign status and revenue amount.
C22_DistributeWithoutInvestorsFails ==
    [][DistributeServed =>
          \A t \in Campaigns, r \in RevenueAmounts :
              (investments_db[t] = <<>> /\ distribute_revenue(t, r))
                  => /\ last'.code = 400
                     /\ last'.detail = NoInvestors]_vars

\* a distribute on an active campaign without investment records was refused
C22_Witness ==
    /\ last.op = "distribute"
    /\ last.token_id \in Campaigns
    /\ tokens_db[last.token_id].status = ACTIVE
    /\ investments_db[last.token_id] = <<>>
    /\ last.detail = NoInvestors

\* C23: distribute, whether it succeeds or fails, leaves the campaign's
\* total_raised, tokens_sold, investors_count, status and investment list
\* unchanged.
C23_DistributeChangesNoCampaign ==
    [][DistributeServed =>
          \A token_id \in RequestedIds, r \in RevenueAmounts :
              distribute_revenue(token_id, r)
                  => /\ DOMAIN tokens_db' = Campaigns
                     /\ \A t \in Campaigns :
                            /\ CountersKept(t)
                            /\ StatusKept(t)
                            /\ investments_db'[t] = investments_db[t]]_vars

\* a distribute was answered with shares on a campaign that holds funds
C23_Witness ==
    /\ last.op = "distribute"
    /\ last.code = 200
    /\ last.token_id \in Campaigns
    /\ tokens_db[last.token_id].total_raised > 0
    /\ tokens_db[last.token_id].tokens_sold = last.tokens

\* the number a short sequence of digits writes
RECURSIVE Number(_)
Number(digits) ==
    IF digits = <<>> THEN 0
    ELSE Number(Front(digits)) * 10 + digits[Len(digits)]

RECURSIVE PowerOfTen(_)
PowerOfTen(n) == IF n = 0 THEN 1 ELSE 10 * PowerOfTen(n - 1)

\* the value of a Decimal of at most nine digits in cents, as a fraction
DecimalInCents(d) ==
    IF d.exp >= -2
    THEN Fraction(Number(d.coef) * PowerOfTen(d.exp + 2), 1)
    ELSE Fraction(Number(d.coef), PowerOfTen(-(d.exp + 2)))

\* n with every factor p taken out
RECURSIVE WithoutFactor(_, _)
WithoutFactor(n, p) == IF n % p = 0 THEN WithoutFactor(n \div p, p) ELSE n

\* n / d is a finite decimal (of far fewer than Precision digits, for the
\* denominators below the total supplies of the campaigns)
FiniteDecimal(n, d) ==
    WithoutFactor(WithoutFactor(d \div GCD(n, d), 2), 5) = 1

\* n / d is a binary fraction, which float() converts without rounding
BinaryFraction(n, d) == WithoutFactor(d \div GCD(n, d), 2) = 1

\* Distributing revenue r over the records of campaign t takes no rounding:
\* revenue_amount / tokens_sold is a finite decimal and every share, in XLM,
\* a binary fraction.
ExactArithmetic(t, r) ==
    /\ FiniteDecimal(r, 100 * tokens_db[t].tokens_sold)
    /\ \A i \in DOMAIN investments_db[t] :
           BinaryFraction(r * investments_db[t][i].tokens_purchased,
                          100 * tokens_db[t].tokens_sold)

FractionPlus(a, b) == Fraction(a.num * b.den + b.num * a.den, a.den * b.den)

\* the sum of the first n shares, in cents
RECURSIVE SumOfShares(_, _)
SumOfShares(distributions, n) ==
    IF n = 0 THEN Fraction(0, 1)
    ELSE FractionPlus(SumOfShares(distributions, n - 1),
                      DecimalInCents(distributions[n].revenue_share))

----------------------------------------------------------------------------
(* The specification's end-to-end scenario: one campaign of 10000 tokens at *)
(* 1.00 XLM with a funding goal of 5000 XLM over 30 days, two investors who *)
(* put in 2500 XLM each, and a revenue of 100 XLM                           *)

\* minimum_investment is left to its default, Decimal("10.00")
RequestScenario ==
    [athlete_data |-> Athlete, performance_metrics |-> MetricsHigh,
     tokenomics |-> [total_supply |-> 10000, price_per_token |-> 100,
                     minimum_investment |-> 1000, token_symbol |-> "TTT"],
     funding_goal |-> 500000, campaign_duration_days |-> 30]

ScenarioInvestors == {"GX", "GY"}

\* 2500 XLM, and 10 XLM
ScenarioAmounts == {250000, 1000}

\* 100 XLM
ScenarioRevenue == 10000

ScenarioInit == Init /\ variant = MEMORY

ScenarioCreate ==
    /\ ValidCreateRequest(RequestScenario)
    /\ Cardinality(DOMAIN tokens_db
                   \cup {TokenId(RequestScenario.tokenomics.token_symbol, now)})
           <= MaxTokens
    /\ create_athlete_token(RequestScenario)

ScenarioInvest ==
    /\ TotalInvestments < MaxInvestments
    /\ \E token_id \in RequestedIds, investor \in ScenarioInvestors,
          amount \in ScenarioAmounts :
           /\ ValidInvestmentAmount(amount)
           /\ invest_in_athlete(token_id, investor, amount)

ScenarioDistribute ==
    \E token_id \in RequestedIds : distribute_revenue(token_id, ScenarioRevenue)

ScenarioNext ==
    \/ Tick
    \/ InMemory /\ ScenarioCreate
    \/ InMemory /\ Activate
    \/ InMemory /\ ScenarioInvest
    \/ InMemory /\ ScenarioDistribute

ScenarioSpec == ScenarioInit /\ [][ScenarioNext]_vars

\* campaign t is the scenario's: 10000 tokens at 1.00 XLM, goal 5000 XLM
ScenarioCampaign(t) ==
    /\ tokens_db[t].tokenomics.total_supply = 10000
    /\ tokens_db[t].adjusted_price_per_token = Fraction(100, 1)
    /\ tokens_db[t].funding_goal = 500000
    /\ tokens_db[t].campaign_duration_days = 30
    /\ tokens_db[t].status = ACTIVE
    /\ now <= tokens_db[t].campaign_end_date

\* the record of 2500 XLM that investor put in
ScenarioRecord(record, investor) ==
    /\ record.investor_address = investor
    /\ record.amount_xlm = 250000
    /\ record.tokens_purchased = 2500

\* the Decimals 0.02 and 50
TwoHundredths == [coef |-> <<2>>, exp |-> -2]
Fifty == [coef |-> <<5>>, exp |-> 1]

\* C25: for a campaign with total_supply 10000, price per token 1.00,
\* funding_goal 5000 and duration 30 days, after activate, invest 2500 from X
\* gives tokens_purchased 2500, total_raised 2500 and status active; a
\* following invest 2500 from Y gives total_raised 5000 and status completed;
\* a following distribute of 100 gives equal shares of 50 to X and Y.
C25_EndToEndScenario ==
    [][\A t \in Campaigns :
          /\ (/\ ScenarioCampaign(t)
              /\ investments_db[t] = <<>>
              /\ tokens_db[t].total_raised = 0
              /\ invest_in_athlete(t, "GX", 250000))
                 => /\ last'.code = 200
                    /\ last'.tokens = 2500
                    /\ tokens_db'[t].total_raised = 250000
                    /\ tokens_db'[t].status = ACTIVE
                    /\ Len(investments_db'[t]) = 1
                    /\ ScenarioRecord(investments_db'[t][1], "GX")
          /\ (/\ ScenarioCampaign(t)
              /\ Len(investments_db[t]) = 1
              /\ ScenarioRecord(investments_db[t][1], "GX")
              /\ tokens_db[t].total_raised = 250000
              /\ invest_in_athlete(t, "GY", 250000))
                 => /\ last'.code = 200
                    /\ last'.tokens = 2500
                    /\ tokens_db'[t].total_raised = 500000
                    /\ tokens_db'[t].status = COMPLETED
                    /\ Len(investments_db'[t]) = 2
                    /\ ScenarioRecord(investments_db'[t][2], "GY")
          /\ (/\ tokens_db[t].status = COMPLETED
              /\ tokens_db[t].total_raised = 500000
              /\ Len(investments_db[t]) = 2
              /\ ScenarioRecord(investments_db[t][1], "GX")
              /\ ScenarioRecord(investments_db[t][2], "GY")
              /\ distribute_revenue(t, ScenarioRevenue))
                 => /\ last'.code = 200
                    /\ last'.revenue_per_token = TwoHundredths
                    /\ Len(last'.distributions) = 2
                    /\ last'.distributions[1].investor_address = "GX"
                    /\ last'.distributions[1].revenue_share = Fifty
                    /\ last'.distributions[2].investor_address = "GY"
                    /\ last'.distributions[2].revenue_share = Fifty]_vars

\* the scenario has run to its end: X and then Y hold 2500 tokens each, the
\* campaign is completed with 5000 XLM raised, and 100 XLM were distributed
C25_Witness ==
    /\ last.op = "distribute"
    /\ last.code = 200
    /\ last.token_id \in Campaigns
    /\ tokens_db[last.token_id].status = COMPLETED
    /\ tokens_db[last.token_id].total_raised = 500000
    /\ tokens_db[last.token_id].tokens_sold = 5000
    /\ Len(investments_db[last.token_id]) = 2
    /\ ScenarioRecord(investments_db[last.token_id][1], "GX")
    /\ ScenarioRecord(investments_db[last.token_id][2], "GY")
    /\ last.total_distributed = [coef |-> <<1>>, exp |-> 2]

----------------------------------------------------------------------------
(* calculate_athlete_valuation, called on its own *)

\* calls of calculate_athlete_valuation on the same athlete and record
MaxCalls == 2

\* AthleteData: the youngest and the oldest age, the ages around the one at
\* which max(0.5, (35 - age) / 20) takes its floor, and every level
ScoredAges == {14, 24, 25, 26, 50}
ScoredAthletes == [age : ScoredAges, level : AthleteLevel]

\* PerformanceMetrics: each score 0, 50 or 100, in half points
ScoredMetrics ==
    [recent_performance_score : {0, 100, 200},
     potential_score : {0, 100, 200},
     media_exposure_score : {0, 100, 200}]

ValuationInit ==
    /\ ComponentsIdle
    /\ now = 0
    /\ tokens_db = <<>>
    /\ investments_db = <<>>
    /\ last = Response("none", NoToken, 0, "", 0, 0, 0)
    /\ variant = MEMORY
    /\ athlete_tokens = <<>>
    /\ soroban = [memory_cache |-> <<>>, requests |-> <<>>,
                  handlers |-> <<>>, create_campaign_calls |-> <<>>]
    /\ postgres = [investments |-> <<>>, requests |-> <<>>]
    /\ \E athlete \in ScoredAthletes, performance \in ScoredMetrics :
           /\ ValidAthleteData(athlete)
           /\ ValidPerformanceMetrics(performance)
           /\ scored = Unscored(athlete, performance)

\* one more call on the athlete and the record
Valuate ==
    /\ Len(scored.scores) < MaxCalls
    /\ scored' =
           [scored EXCEPT
               !.scores = Append(@, calculate_athlete_valuation(
                                        scored.athlete, scored.performance))]
    /\ UNCHANGED <<now, tokens_db, investments_db, last, variant, athlete_tokens,
                   soroban, postgres, components>>

\* the call of create_athlete_token, on the athlete and record of its request,
\* comes between the others and changes the campaigns
ValuationCreate ==
    /\ ValidCreateRequest(RequestUnit)
    /\ Cardinality(DOMAIN tokens_db
                   \cup {TokenId(RequestUnit.tokenomics.token_symbol, now)})
           <= MaxTokens
    /\ create_athlete_token(RequestUnit)

ValuationNext ==
    \/ Tick
    \/ InMemory /\ ValuationCreate
    \/ Valuate

ValuationSpec == ValuationInit /\ [][ValuationNext]_vars

\* C26: for every athlete with age in 14..50 and any level, and every
\* performance record with the three scores in 0..100,
\* calculate_athlete_valuation returns a score in [0, 100].
C26_ValuationWithinBounds ==
    \A i \in DOMAIN scored.scores :
        /\ scored.scores[i] >= 0
        \* 100 points, in 1/400 points
        /\ scored.scores[i] <= 100 * 400

\* the youngest elite athlete with three scores of 100 has been scored: the
\* largest score there is, 70.3525
C26_Witness ==
    /\ scored.athlete = [age |-> 14, level |-> ELITE]
    /\ scored.performance.recent_performance_score = 200
    /\ scored.performance.potential_score = 200
    /\ scored.performance.media_exposure_score = 200
    /\ scored.scores # <<>>
    /\ scored.scores[1] = 28141

----------------------------------------------------------------------------
(* Properties of the smart-contract variant *)

\* C28: in the smart-contract-backed variant, the adjusted price of every
\* created campaign lies between 0.5 and 2.0 times the requested base
\* price_per_token, so it is always positive.
C28_SorobanPriceWithinHalfAndDouble ==
    \A key \in CachedTokens :
        LET token_data == soroban.memory_cache[key]
            price == token_data.adjusted_price_per_token
            base == token_data.tokenomics.price_per_token
        IN  /\ 2 * price.num >= base * price.den
            /\ price.num <= 2 * base * price.den
            /\ price.num > 0
            /\ price.den > 0

\* a campaign whose athlete is valued 0.15 was created at half its base price
C28_Witness ==
    \E key \in CachedTokens :
        /\ soroban.memory_cache[key].athlete_valuation < PriceBasis \div 2
        /\ soroban.memory_cache[key].tokenomics.price_per_token = 100
        /\ soroban.memory_cache[key].adjusted_price_per_token = Fraction(50, 1)

----------------------------------------------------------------------------
(* Properties of overlapping invest requests in the Postgres variant *)

\* j and k had both read their campaign before either committed its UPDATE
PgConcurrent(j, k) ==
    \/ j \in postgres.requests[k].overlapped
    \/ k \in postgres.requests[j].overlapped

\* the rows of table investments that request j inserted
PgRowsOf(j) ==
    {i \in DOMAIN postgres.investments : postgres.investments[i].request = j}

\* request k has read its campaign and is not answered
PgHasRead(k) == postgres.requests[k].pc \notin {"select", "done"}

----------------------------------------------------------------------------
(* Properties of campaigns side by side *)

\* the operations on one campaign, as the responses name them
CampaignOperations == {"activate", "invest", "distribute", "performance"}

\* C31: an activate, invest, distribute or performance update on one campaign
\* leaves every other campaign's record (status, counters, price and the
\* rest) and investment list unchanged.
C31_OtherCampaignsUnchanged ==
    [][last'.op \in CampaignOperations =>
          \A u \in Campaigns :
              u # last'.token_id =>
                  /\ u \in DOMAIN tokens_db'
                  /\ tokens_db'[u] = tokens_db[u]
                  /\ investments_db'[u] = investments_db[u]]_vars

\* an invest on one campaign was accepted while another campaign, still
\* without an investment, exists
C31_Witness ==
    \E t \in Campaigns, u \in Campaigns :
        /\ t # u
        /\ last.op = "invest"
        /\ last.code = 200
        /\ last.token_id = t
        /\ investments_db[t] # <<>>
        /\ investments_db[u] = <<>>
        /\ tokens_db[u].tokens_sold = 0

----------------------------------------------------------------------------
(* Properties of the status of a campaign *)

\* C32 as stated: in the in-memory variant the status of a campaign changes
\* only from draft to active, by a successful activate of that campaign, and
\* from active to completed, by a successful invest in it; no campaign is
\* ever paused.
C32_OnlyActivateAndInvestChangeStatus ==
    [][/\ \A t \in DOMAIN tokens_db' : tokens_db'[t].status # PAUSED
       /\ \A t \in Campaigns :
              ( /\ t \in DOMAIN tokens_db'
                /\ tokens_db'[t].status # tokens_db[t].status )
                  => /\ last'.token_id = t
                     /\ last'.code = 200
                     /\ \/ /\ tokens_db[t].status = DRAFT
                           /\ tokens_db'[t].status = ACTIVE
                           /\ last'.op = "activate"
                        \/ /\ tokens_db[t].status = ACTIVE
                           /\ tokens_db'[t].status = COMPLETED
                           /\ last'.op = "invest"]_vars

----------------------------------------------------------------------------
(* Properties of the tokens sold *)

RECURSIVE SumOfTokens(_)
SumOfTokens(investments) ==
    IF investments = <<>> THEN 0
    ELSE investments[1].tokens_purchased + SumOfTokens(Tail(investments))

\* C33: in every reachable state tokens_sold of a campaign is the sum of
\* tokens_purchased over its investment records and every record has
\* tokens_purchased >= 1, so that a campaign with an investment has
\* tokens_sold >= 1 and distribute never meets its division by zero.
C33_TokensSoldIsSumOfRecords ==
    /\ \A t \in Campaigns :
           /\ tokens_db[t].tokens_sold = SumOfTokens(investments_db[t])
           /\ \A k \in DOMAIN investments_db[t] :
                  investments_db[t][k].tokens_purchased >= 1
           /\ investments_db[t] # <<>> => tokens_db[t].tokens_sold >= 1
    /\ ~(last.op = "distribute" /\ last.code = 500)

\* a distribution was served on a campaign with two investment records
C33_Witness ==
    /\ last.op = "distribute"
    /\ last.code = 200
    /\ last.token_id \in Campaigns
    /\ Len(investments_db[last.token_id]) = 2
    /\ tokens_db[last.token_id].tokens_sold
           = investments_db[last.token_id][1].tokens_purchased
             + investments_db[last.token_id][2].tokens_purchased

----------------------------------------------------------------------------
(* Properties of the performance update *)

PerformanceServed == last'.op = "performance"

\* the valuation stored with t is the one of its stored athlete and metrics
ValuationOfStored(token_data) ==
    token_data.athlete_valuation
        = calculate_athlete_valuation(token_data.athlete_data,
                                      token_data.performance_metrics)

\* C34: a performance update stores the metrics of its request in place of
\* the earlier ones and the valuation computed from them, so that the stored
\* valuation is always the valuation of the stored athlete and metrics; it
\* leaves adjusted_price_per_token, status, total_raised, tokens_sold,
\* investors_count and the investment lists unchanged.
C34_UpdateReplacesMetricsAndValuationOnly ==
    [][/\ \A t \in DOMAIN tokens_db' : ValuationOfStored(tokens_db'[t])
       /\ (PerformanceServed /\ last'.code = 200) =>
              LET t == last'.token_id IN
              /\ tokens_db'[t].performance_metrics = last'.updated_metrics
              /\ tokens_db'[t].athlete_valuation = last'.valuation
              /\ tokens_db'[t].adjusted_price_per_token
                     = tokens_db[t].adjusted_price_per_token
              /\ tokens_db'[t].status = tokens_db[t].status
              /\ tokens_db'[t].total_raised = tokens_db[t].total_raised
              /\ tokens_db'[t].tokens_sold = tokens_db[t].tokens_sold
              /\ tokens_db'[t].investors_count = tokens_db[t].investors_count
              /\ investments_db' = investments_db]_vars

\* an update has changed the metrics and the valuation of a campaign that
\* has an investment, and its price is no longer the one of its valuation
C34_Witness ==
    /\ last.op = "performance"
    /\ last.code = 200
    /\ last.token_id \in Campaigns
    /\ LET token_data == tokens_db[last.token_id] IN
           /\ investments_db[last.token_id] # <<>>
           /\ token_data.performance_metrics = last.updated_metrics
           /\ token_data.adjusted_price_per_token
                  # AdjustedPrice(token_data.tokenomics.price_per_token,
                                  token_data.athlete_valuation)

----------------------------------------------------------------------------
(* Properties of the smart-contract variant under overlapping requests *)

\* the tokens memory_cache holds
CachedTokenIds == {key[2] : key \in CachedTokens}

\* handler k, an activate request, sets its token active in this step
Activates(k) ==
    /\ k \in Handlers
    /\ soroban.handlers[k].op = "activate"
    /\ Suspended(k)
    /\ soroban'.handlers[k].code = 200

\* C35: under every interleaving of activate and invest requests at their
\* awaits, create_campaign is called at most once for a token, the cached
\* counters of its campaign are reset at most once (an activation never
\* finds the campaign cached already), and its cached status never goes from
\* completed back to active.
C35_TokenActivatedAtMostOnce ==
    [][\A t \in CachedTokenIds :
           /\ GetOr(soroban'.create_campaign_calls, t, 0) <= 1
           /\ \A k \in Handlers :
                  (Activates(k) /\ soroban.handlers[k].token_id = t)
                      => CampaignKey(t) \notin DOMAIN soroban.memory_cache
           /\ ~(/\ soroban.memory_cache[TokenKey(t)].status = COMPLETED
                /\ soroban'.memory_cache[TokenKey(t)].status = ACTIVE)]_vars

----------------------------------------------------------------------------
(* Properties of RateLimiter *)

\* the accepted calls of identifier made after instant start
AcceptedSince(identifier, start) ==
    {i \in DOMAIN rate_limiter.accepted :
         /\ rate_limiter.accepted[i].identifier = identifier
         /\ rate_limiter.accepted[i].time > start}

\* the step is a call of check_rate_limit
CheckServed == rate_limiter'.calls = rate_limiter.calls + 1

\* C36: for every identifier, the accepted calls made within the last
\* window_seconds are never more than max_requests; a call is rejected
\* exactly when the identifier's own accepted calls of the window are
\* max_requests already, it is then not recorded, and a call leaves the
\* lists of every other identifier as they were.
C36_AcceptedWithinQuota ==
    [][/\ \A identifier \in LimiterIdentifiers :
              Cardinality(AcceptedSince(identifier,
                                        now - rate_limiter.window_seconds)')
                  <= rate_limiter.max_requests
       /\ CheckServed =>
              LET identifier == rate_limiter'.answer.identifier
                  within == AcceptedSince(identifier,
                                          now - rate_limiter.window_seconds)
              IN
              /\ rate_limiter'.answer.code = 429
                     <=> Cardinality(within) >= rate_limiter.max_requests
              /\ rate_limiter'.answer.code = 429 =>
                     /\ rate_limiter'.accepted = rate_limiter.accepted
                     /\ Len(rate_limiter'.requests[identifier])
                            = Cardinality(within)
              /\ \A other \in LimiterIdentifiers \ {identifier} :
                     /\ other \in DOMAIN rate_limiter.requests
                            <=> other \in DOMAIN rate_limiter'.requests
                     /\ other \in DOMAIN rate_limiter.requests =>
                            rate_limiter'.requests[other]
                                = rate_limiter.requests[other]]_vars

\* an identifier is rejected with its quota full, an earlier call of it has
\* left the window, and the other identifier has been accepted meanwhile
C36_Witness ==
    /\ rate_limiter # Idle
    /\ rate_limiter.answer.code = 429
    /\ LET identifier == rate_limiter.answer.identifier IN
           /\ Cardinality(AcceptedSince(identifier,
                                        now - rate_limiter.window_seconds))
                  = rate_limiter.max_requests
           /\ Cardinality(AcceptedSince(identifier, -1))
                  > rate_limiter.max_requests
           /\ \E other \in LimiterIdentifiers \ {identifier} :
                  AcceptedSince(other, now - rate_limiter.window_seconds) # {}

----------------------------------------------------------------------------
(* Properties of _execute_contract_function *)

ContractCallEnded == contract_call.pc \in {"returned", "raised"}

\* C37: the call ends, within MAX_RETRIES attempts; it returns success at
\* the first attempt that succeeds, having submitted one transaction at most
\* and none before; a simulation error is raised in the attempt it occurs
\* in, without a retry of that attempt; when MAX_RETRIES attempts have
\* failed with exceptions it returns failure with EXECUTION_ERROR, and it
\* never returns MAX_RETRIES_EXCEEDED.
C37_EndsWithinMaxRetries ==
    /\ <>ContractCallEnded
    /\ [](/\ contract_call.attempt < MAX_RETRIES
          /\ Len(contract_call.failures) <= MAX_RETRIES
          /\ contract_call.submitted <= 1
          /\ contract_call.submitted = 1 =>
                 /\ contract_call.pc = "returned"
                 /\ contract_call.result.success
          /\ (ContractCallEnded /\ contract_call.result.success) =>
                 /\ Len(contract_call.failures) = contract_call.attempt
                 /\ contract_call.submitted
                        = IF contract_call.read_only THEN 0 ELSE 1
          /\ contract_call.pc = "raised" =>
                 /\ contract_call.result.error_code = SIMULATION_ERROR
                 /\ Len(contract_call.failures) = contract_call.attempt
          /\ (ContractCallEnded /\ Len(contract_call.failures) = MAX_RETRIES) =>
                 /\ contract_call.pc = "returned"
                 /\ ~contract_call.result.success
                 /\ contract_call.result.error_code = EXECUTION_ERROR
          /\ contract_call.result.error_code # MAX_RETRIES_EXCEEDED)
    /\ [][ContractCallEnded => contract_call' = contract_call]_vars

\* the third attempt fails after two that failed, and the call has returned
C37_Witness ==
    /\ contract_call # Idle
    /\ contract_call.pc = "returned"
    /\ Len(contract_call.failures) = MAX_RETRIES
    /\ contract_call.failures[MAX_RETRIES] = "submit"
    /\ contract_call.slept = RETRY_DELAY + 2 * RETRY_DELAY

----------------------------------------------------------------------------
(* Properties of CacheManager *)

\* C38: get(k) returns the value last set for k when no delete(k) came
\* after, and nothing after delete(k), whatever the external cache: absent,
\* raising on every call, or available without the key.
C38_GetReturnsLastSet ==
    cache.returned.value = cache.returned.written

----------------------------------------------------------------------------
(* Properties of batch_create_tokens *)

----------------------------------------------------------------------------
(* Properties of the price derived from the valuation *)

\* the valid athlete and record that calculate_athlete_valuation, increasing
\* in the scores and the level and decreasing in the age, scores highest
BestAthlete == [age |-> 14, level |-> ELITE]
BestMetrics ==
    [recent_performance_score |-> 200, potential_score |-> 200,
     media_exposure_score |-> 200]

\* C40: over the valid inputs the valuation goes up to 100, where the
\* multiplier valuation / 50 is 2 and the adjusted price is double the base
\* price: the valid input scored highest is valued 100 and priced at twice
\* its base price.
C40_ValuationReachesDoublePrice ==
    \A i \in DOMAIN scored.scores :
        (scored.athlete = BestAthlete /\ scored.performance = BestMetrics) =>
            /\ scored.scores[i] = 100 * 400
            /\ \A price_per_token \in {1, 100} :
                   AdjustedPrice(price_per_token, scored.scores[i])
                       = Fraction(2 * price_per_token, 1)

====
